---- MODULE Spec2Model ----
(***************************************************************************)
(* TireStorageManager: the storage-position allocator (src/tsm/positions.py)*)
(* and the record routes of the web variant (src/routes.py) over the       *)
(* tables of src/models.py, the backup thread with its retention pruning   *)
(* (src/tsm/backup_manager.py), the settings and backup routes, the        *)
(* command-line tool src/tools/quick_disable.py, and the controller of the *)
(* desktop variant (src/app) with its write lock.                          *)
(*                                                                         *)
(* A Python str is modelled as a sequence of one-character strings, so     *)
(* that matching, stripping and formatting are computed character by       *)
(* character: the code "C1ROLL" is <<"C","1","R","O","L","L">>.              *)
(***************************************************************************)
EXTENDS Integers, Sequences, FiniteSets, TLC

VARIABLES
    wheel_sets,          \* table wheel_sets: set of rows
    disabled_positions,  \* table disabled_positions: set of codes (primary key)
    audit_log,           \* table audit_log: sequence of rows, in insertion order
    pc,                  \* per request thread: position in its handler
    req,                 \* per request thread: the request and the handler's locals
    last,                \* the last library call made: operation, arguments, result
    settings,            \* table settings: set of rows
    files,               \* names of the files in BACKUP_DIR
    now,                 \* the clock: <<second of the day, part of the second>>
    sched,               \* the BackupManager thread started by run.py
    run,                 \* per caller: its perform_backup or export_csv_snapshot call
    write_lock,          \* desktop variant: the process that holds the lock file
    wheels,              \* desktop variant: table wheels, a set of rows
    ctl                  \* desktop variant, per process: its AppController call

vars == <<wheel_sets, disabled_positions, audit_log, pc, req, last,
          settings, files, now, sched, run, write_lock, wheels, ctl>>

\* the desktop variant, which shares nothing with the web variant
desk_vars == <<write_lock, wheels, ctl>>

\* what the allocator and the record routes never touch
backup_vars == <<settings, files, now, sched, run, desk_vars>>

None == "None"

(***************************************************************************)
(* Characters and str helpers                                              *)
(***************************************************************************)
LF == "\n"

\* str(n) for a one-digit int, as the f-strings of all_valid_positions format it
Digits == <<"0", "1", "2", "3", "4", "5", "6", "7", "8", "9">>

IntToStr(n) == <<Digits[n + 1]>>

\* int(s) for a one-digit str, as position_sort_key parses group(1)
StrToInt(s) == CHOOSE n \in 0..9 : Digits[n + 1] = s[1]

\* code.startswith(prefix)
startswith(code, prefix) ==
    /\ Len(code) >= Len(prefix)
    /\ SubSeq(code, 1, Len(prefix)) = prefix

\* Python's str.strip(): leading and trailing whitespace removed
IsSpace(ch) == ch \in {" ", LF, "\t", "\r"}

strip(s) ==
    LET idx == {i \in 1..Len(s) : ~IsSpace(s[i])}
    IN  IF idx = {} THEN <<>>
        ELSE LET lo == CHOOSE i \in idx : \A j \in idx : i <= j
                 hi == CHOOSE i \in idx : \A j \in idx : i >= j
             IN  SubSeq(s, lo, hi)

(***************************************************************************)
(* src/tsm/positions.py: globals                                           *)
(***************************************************************************)
CONTAINER_NUMBERS == <<1, 2, 3, 4>>
CONTAINER_SIDES == <<"R", "L">>
LEVELS == <<"O", "M", "U">>
CONTAINER_POSITIONS == << <<"L", "L">>, <<"L">>, <<"M", "M">>, <<"M">>,
                          <<"R", "R">>, <<"R">> >>
\* range(1, 8) instead of range(1, 9)
GARAGE_SHELVES_short == [i \in 1..7 |-> i]

GARAGE_SHELVES == [i \in 1..8 |-> i]
GARAGE_POSITIONS == << <<"L">>, <<"M">>, <<"R">> >>

\* all_valid_positions(): the nested loops, outermost index varying slowest
ContainerLoop ==
    LET nS == Len(CONTAINER_SIDES)
        nL == Len(LEVELS)
        nP == Len(CONTAINER_POSITIONS)
        n  == Len(CONTAINER_NUMBERS) * nS * nL * nP
    IN  [k \in 1..n |->
            LET c    == CONTAINER_NUMBERS[((k - 1) \div (nS * nL * nP)) + 1]
                side == CONTAINER_SIDES[(((k - 1) \div (nL * nP)) % nS) + 1]
                lvl  == LEVELS[(((k - 1) \div nP) % nL) + 1]
                p    == CONTAINER_POSITIONS[((k - 1) % nP) + 1]
            IN  <<"C">> \o IntToStr(c) \o <<side>> \o <<lvl>> \o p]

GarageLoop ==
    LET nL == Len(LEVELS)
        nP == Len(GARAGE_POSITIONS)
        n  == Len(GARAGE_SHELVES) * nL * nP
    IN  [k \in 1..n |->
            LET g   == GARAGE_SHELVES[((k - 1) \div (nL * nP)) + 1]
                lvl == LEVELS[(((k - 1) \div nP) % nL) + 1]
                p   == GARAGE_POSITIONS[((k - 1) % nP) + 1]
            IN  <<"G", "R">> \o IntToStr(g) \o <<lvl>> \o p]

all_valid_positions == ContainerLoop \o GarageLoop

(***************************************************************************)
(* The two compiled patterns.  A match is <<group(1), ..., group(n)>>, no   *)
(* match is None.  "$" without re.MULTILINE matches at the end of the      *)
(* string and also just before a newline that is the last character.       *)
(***************************************************************************)
DollarAt(s, i) ==
    \/ i = Len(s) + 1
    \/ i = Len(s) /\ s[i] = LF

\* Does literal lit occur in s at index i
LitAt(s, i, lit) ==
    /\ i + Len(lit) - 1 <= Len(s)
    /\ SubSeq(s, i, i + Len(lit) - 1) = lit

\* (alt1|alt2|...)$ at index i: the first alternative, in pattern order, after
\* which "$" matches; 0 when no alternative does
AltThenDollar(s, i, alts) ==
    LET ok == {a \in 1..Len(alts) :
                  LitAt(s, i, alts[a]) /\ DollarAt(s, i + Len(alts[a]))}
    IN  IF ok = {} THEN 0 ELSE CHOOSE a \in ok : \A b \in ok : a <= b

\* RE_CONTAINER = ^C([1-4])([RL])([OMU])(LL|L|MM|M|RR|R)$
RE_CONTAINER_alts == << <<"L", "L">>, <<"L">>, <<"M", "M">>, <<"M">>,
                        <<"R", "R">>, <<"R">> >>

RE_CONTAINER_match(code) ==
    IF /\ Len(code) >= 4
       /\ code[1] = "C"
       /\ code[2] \in {"1", "2", "3", "4"}
       /\ code[3] \in {"R", "L"}
       /\ code[4] \in {"O", "M", "U"}
       /\ AltThenDollar(code, 5, RE_CONTAINER_alts) # 0
    THEN <<code[2], code[3], code[4],
           RE_CONTAINER_alts[AltThenDollar(code, 5, RE_CONTAINER_alts)]>>
    ELSE None

\* RE_GARAGE = ^GR([1-8])([OMU])([LMR])$
RE_GARAGE_match(code) ==
    IF /\ Len(code) >= 5
       /\ code[1] = "G"
       /\ code[2] = "R"
       /\ code[3] \in {"1", "2", "3", "4", "5", "6", "7", "8"}
       /\ code[4] \in {"O", "M", "U"}
       /\ code[5] \in {"L", "M", "R"}
       /\ DollarAt(code, 6)
    THEN <<code[3], code[4], <<code[5]>> >>
    ELSE None

is_valid_position(code) ==
    RE_CONTAINER_match(code) # None \/ RE_GARAGE_match(code) # None

\* every slot mapped to order 0
IndexIn_zero(l, v) == 0

\* index of v in a list, counted from 0, as {v: i for i, v in enumerate(l)}[v]
IndexIn(l, v) == (CHOOSE i \in 1..Len(l) : l[i] = v) - 1

\* L before R
side_order_swapped(side) == IF side = "R" THEN 1 ELSE 0

side_order(side) == IF side = "R" THEN 0 ELSE 1

lvl_order(lvl) == IF lvl = "O" THEN 0 ELSE IF lvl = "M" THEN 1 ELSE 2

position_sort_key(code) ==
    IF startswith(code, <<"C">>)
    THEN LET m == RE_CONTAINER_match(code)
         IN  IF m = None THEN <<0, 999, 9, 9, 9>>
             ELSE <<0, StrToInt(<<m[1]>>), side_order(m[2]), lvl_order(m[3]),
                    IndexIn(CONTAINER_POSITIONS, m[4])>>
    ELSE LET m == RE_GARAGE_match(code)
         IN  IF m = None THEN <<1, 999, 9, 9>>
             ELSE <<1, StrToInt(<<m[1]>>), lvl_order(m[2]),
                    IndexIn(GARAGE_POSITIONS, m[3])>>

\* Python's tuple comparison a < b
TupleLess(a, b) ==
    LET n == IF Len(a) < Len(b) THEN Len(a) ELSE Len(b)
        d == {i \in 1..n : a[i] # b[i]}
    IN  IF d = {} THEN Len(a) < Len(b)
        ELSE LET i == CHOOSE i \in d : \A j \in d : i <= j
             IN  a[i] < b[i]

\* A function on 1..n as a list value
ToList(f) == SubSeq(f, 1, Len(f))

\* sorted(seq, key=...): each key is computed once (keys[i] is the key of
\* item i); the sort is stable and compares keys with < only.  Item i goes
\* behind every item whose key is smaller and behind every earlier item whose
\* key is not greater.
sorted(seq, keys) ==
    LET n     == Len(seq)
        ahead == ToList([i \in 1..n |->
                    Cardinality({j \in 1..n :
                        \/ TupleLess(keys[j], keys[i])
                        \/ j < i /\ ~TupleLess(keys[i], keys[j])})])
    IN  ToList([r \in 1..n |-> seq[CHOOSE i \in 1..n : ahead[i] = r - 1]])

\* key=position_sort_key applied to each item of a list
sort_keys(seq) == ToList([i \in 1..Len(seq) |-> position_sort_key(seq[i])])

ALL_POSITIONS == all_valid_positions

SORTED_POSITIONS == sorted(ALL_POSITIONS, sort_keys(ALL_POSITIONS))

(***************************************************************************)
(* src/tsm/positions.py: queries on the tables.  ws is the content of      *)
(* wheel_sets and dis the content of disabled_positions, as the session    *)
(* reads them.                                                             *)
(***************************************************************************)
get_occupied_positions(ws) == {w.storage_position : w \in ws}

get_disabled_positions(dis) == dis

\* the loop tests occupancy only
first_free_position_any_enabled(ws, dis) ==
    LET occupied == get_occupied_positions(ws)
        free == {i \in 1..Len(SORTED_POSITIONS) : SORTED_POSITIONS[i] \notin occupied}
    IN  IF free = {} THEN None
        ELSE SORTED_POSITIONS[CHOOSE i \in free : \A j \in free : i <= j]

\* the loop returns at the first code that passes the test, None after it
first_free_position(ws, dis) ==
    LET occupied == get_occupied_positions(ws)
        disabled == get_disabled_positions(dis)
        free == {i \in 1..Len(SORTED_POSITIONS) :
                    /\ SORTED_POSITIONS[i] \notin occupied
                    /\ SORTED_POSITIONS[i] \notin disabled}
    IN  IF free = {} THEN None
        ELSE SORTED_POSITIONS[CHOOSE i \in free : \A j \in free : i <= j]

\* the comprehension tests occupancy only
free_positions_any_enabled(ws, dis) ==
    LET occupied == get_occupied_positions(ws)
        Keep(code) == code \notin occupied
    IN  SelectSeq(SORTED_POSITIONS, Keep)

free_positions(ws, dis) ==
    LET occupied == get_occupied_positions(ws)
        disabled == get_disabled_positions(dis)
        Keep(code) == code \notin occupied /\ code \notin disabled
    IN  SelectSeq(SORTED_POSITIONS, Keep)

\* disable_position(db, code): <<return value, disabled_positions after>>
disable_position(dis, code) ==
    IF ~is_valid_position(code) THEN <<FALSE, dis>>
    ELSE IF code \in dis THEN <<FALSE, dis>>
    ELSE <<TRUE, dis \cup {code}>>

\* the delete is not restricted to the row found
enable_position_delete_all(dis, code) ==
    IF code \notin dis THEN <<FALSE, dis>>
    ELSE <<TRUE, {}>>

\* enable_position(db, code): <<return value, disabled_positions after>>
enable_position(dis, code) ==
    IF code \notin dis THEN <<FALSE, dis>>
    ELSE <<TRUE, dis \ {code}>>


is_usable_position(dis, code) ==
    is_valid_position(code) /\ code \notin get_disabled_positions(dis)

(***************************************************************************)
(* Initial values of the parts a specification does not exercise           *)
(***************************************************************************)
\* two request threads of the web server
Threads == {"t1", "t2"}

NoReq == [kind |-> None]

\* A library call: its operation and arguments, and once it has returned
\* (done) its result
Pending(op, arg) == [op |-> op, arg |-> arg, ret |-> None, done |-> FALSE]

Returned(call, ret) == [call EXCEPT !.ret = ret, !.done = TRUE]

NoCall == Pending(None, <<>>)

IdleThreads ==
    /\ pc = [t \in Threads |-> "idle"]
    /\ req = [t \in Threads |-> NoReq]

\* the callers of perform_backup and export_csv_snapshot: the BackupManager
\* thread, and a request thread in the run_backup or export_csv_now route
Runners == {"periodic", "request"}

\* no call in progress.  Of a call in progress: pc is the statement it is
\* at, started and ts its datetime.now() and the token made of it, keep and
\* listed the locals of the pruning, rows the local of export_csv_snapshot;
\* and as a record of what it did: seen the listings it took, wrote the files
\* it wrote, content the lines of the CSV file it wrote, audited the number
\* of "backup" entries it added, failed the statement that raised, rm_failed
\* whether an os.remove raised, present the directory as it was when the
\* call began.  calls counts the requests a request thread has made.
NoRun(calls) ==
    [pc |-> "idle", op |-> None, calls |-> calls, started |-> <<>>, ts |-> <<>>,
     keep |-> 0, listed |-> <<>>, rows |-> <<>>, seen |-> <<>>, wrote |-> {},
     content |-> <<>>, audited |-> 0, failed |-> None, rm_failed |-> FALSE,
     present |-> {}]

\* the process starts at 01:00:00
StartOfRun == <<60 * 60, 0>>

\* two desktop processes that have opened the same database file
Procs == {"p1", "p2"}

\* no AppController call in progress.  Of a call in progress: pc is the
\* statement it is at, op and arg the method and its arguments, rec what the
\* repository is given, exc the exception raised and ret the value returned;
\* writes counts the repository writes made since the lock was acquired
NoCtl ==
    [pc |-> "idle", op |-> None, arg |-> <<>>, rec |-> <<>>, exc |-> None,
     ret |-> <<>>, writes |-> 0]

DeskOff ==
    /\ write_lock = None
    /\ wheels = {}
    /\ ctl = [p \in Procs |-> NoCtl]

\* BackupManager.__init__ and start(): the loop is about to test the stop
\* event; tick counts the iterations begun, failed_at is the time at which
\* the last periodic backup failed (<<>> when there is none, or when a later
\* one succeeded), exc the step of this iteration that raised
SchedStart ==
    [pc |-> "check", last_run |-> <<>>, stop |-> FALSE, wake |-> <<>>,
     tick |-> 0, exc |-> None, failed_at |-> <<>>]

BackupOff ==
    /\ settings = {}
    /\ files = {}
    /\ now = StartOfRun
    /\ sched = SchedStart
    /\ run = [r \in Runners |-> NoRun(0)]

EmptyDb ==
    /\ wheel_sets = {}
    /\ disabled_positions = {}
    /\ audit_log = <<>>

(***************************************************************************)
(* The position grammar of the data model, written out as a set:           *)
(* C<n><side><level><slot> and GR<n><level><slot>.                         *)
(***************************************************************************)
GrammarContainer ==
    {<<"C", n, s, l>> \o slot : n \in {"1", "2", "3", "4"}, s \in {"R", "L"},
                               l \in {"O", "M", "U"},
                               slot \in {<<"L", "L">>, <<"L">>, <<"M", "M">>,
                                         <<"M">>, <<"R", "R">>, <<"R">>}}

GrammarGarage ==
    {<<"G", "R", n, l, p>> : n \in {"1", "2", "3", "4", "5", "6", "7", "8"},
                             l \in {"O", "M", "U"}, p \in {"L", "M", "R"}}

GrammarUniverse == GrammarContainer \cup GrammarGarage

Range(s) == {s[i] : i \in 1..Len(s)}

(***************************************************************************)
(* Input strings for the pure functions: the universe, and strings near it *)
(***************************************************************************)
MaxPad == 1
MaxShort == 2

PadChars == {LF, " ", "L", "X"}
ReplChars == {"5", "9", "0", "X", "L", "l", LF}
ShortChars == {"C", "G", "R", "1", "O", "L", LF, "c"}

RECURSIVE StringsUpTo(_, _)
StringsUpTo(chars, n) ==
    IF n = 0 THEN {<<>>}
    ELSE LET shorter == StringsUpTo(chars, n - 1)
         IN  shorter \cup {Append(s, ch) : s \in shorter, ch \in chars}

LowerChar(ch) ==
    CASE ch = "C" -> "c" [] ch = "G" -> "g" [] ch = "R" -> "r"
      [] ch = "L" -> "l" [] ch = "O" -> "o" [] ch = "M" -> "m"
      [] ch = "U" -> "u" [] ch = "W" -> "w" [] ch = "I" -> "i"
      [] ch = "N" -> "n" [] ch = "T" -> "t" [] ch = "E" -> "e"
      [] ch = "S" -> "s" [] ch = "A" -> "a" [] OTHER -> ch

lower(s) == [i \in 1..Len(s) |-> LowerChar(s[i])]

Pads == StringsUpTo(PadChars, MaxPad) \ {<<>>}

StringInputs ==
    GrammarUniverse
    \cup {lower(c) : c \in GrammarUniverse}
    \cup {c \o p : c \in GrammarUniverse, p \in Pads}
    \cup {p \o c : c \in GrammarUniverse, p \in Pads}
    \cup UNION {{[c EXCEPT ![i] = ch] : i \in 1..Len(c), ch \in ReplChars} :
                c \in GrammarUniverse}
    \cup UNION {{SubSeq(c, 1, i - 1) \o SubSeq(c, i + 1, Len(c)) : i \in 1..Len(c)} :
                c \in GrammarUniverse}
    \cup StringsUpTo(ShortChars, MaxShort)

(***************************************************************************)
(* SpecPos: the pure functions of positions.py applied to drawn inputs     *)
(***************************************************************************)
InitPos ==
    /\ EmptyDb
    /\ IdleThreads
    /\ DeskOff
    /\ BackupOff
    /\ \/ \E code \in StringInputs : last = Pending("is_valid_position", code)
       \/ \E a \in GrammarUniverse, b \in GrammarUniverse :
              last = Pending("position_sort_key", <<a, b>>)
       \/ last = Pending("all_valid_positions", <<>>)
       \/ last = Pending("SORTED_POSITIONS", <<>>)

CallIsValid ==
    /\ last.op = "is_valid_position" /\ ~last.done
    /\ last' = Returned(last, is_valid_position(last.arg))
    /\ UNCHANGED <<backup_vars, wheel_sets, disabled_positions, audit_log, pc, req>>

\* the keys of two codes, as a sort compares them
CallSortKey ==
    /\ last.op = "position_sort_key" /\ ~last.done
    /\ last' = Returned(last, <<position_sort_key(last.arg[1]),
                                position_sort_key(last.arg[2])>>)
    /\ UNCHANGED <<backup_vars, wheel_sets, disabled_positions, audit_log, pc, req>>

CallAllValid ==
    /\ last.op = "all_valid_positions" /\ ~last.done
    /\ last' = Returned(last, all_valid_positions)
    /\ UNCHANGED <<backup_vars, wheel_sets, disabled_positions, audit_log, pc, req>>

\* a read of the module global, as the routes import it
ReadSorted ==
    /\ last.op = "SORTED_POSITIONS" /\ ~last.done
    /\ last' = Returned(last, SORTED_POSITIONS)
    /\ UNCHANGED <<backup_vars, wheel_sets, disabled_positions, audit_log, pc, req>>

NextPos ==
    \/ CallIsValid
    \/ CallSortKey
    \/ CallAllValid
    \/ ReadSorted

SpecPos == InitPos /\ [][NextPos]_vars


(***************************************************************************)
(* Properties of the pure functions (SpecPos)                              *)
(***************************************************************************)
Reverse(s) == [i \in 1..Len(s) |-> s[Len(s) + 1 - i]]

C1ROLL == <<"C", "1", "R", "O", "L", "L">>
C1ROL == <<"C", "1", "R", "O", "L">>
C1LOLL == <<"C", "1", "L", "O", "L", "L">>
GR1OL == <<"G", "R", "1", "O", "L">>

\* C4: the enumerated universe (as generated, and as sorted) has exactly 216
\* codes, 144 container codes and 72 garage codes, none twice, and every one
\* passes is_valid_position.
C4_UniverseIs216ValidCodes ==
    (last.op \in {"all_valid_positions", "SORTED_POSITIONS"} /\ last.done) =>
        LET u == last.ret
        IN  /\ Len(u) = 216
            /\ Cardinality(Range(u)) = 216
            /\ Cardinality({i \in 1..Len(u) : startswith(u[i], <<"C">>)}) = 144
            /\ Cardinality({i \in 1..Len(u) : startswith(u[i], <<"G", "R">>)}) = 72
            /\ \A i \in 1..Len(u) : is_valid_position(u[i])

C4_Witness ==
    /\ last.op = "SORTED_POSITIONS" /\ last.done
    /\ Len(last.ret) = 216
    /\ last.ret[1] = C1ROLL

\* C5 (as claimed): for every input string, is_valid_position returns true if
\* and only if the string is one of the 216 codes of the grammar.
C5_ValidIffInUniverse ==
    (last.op = "is_valid_position" /\ last.done) =>
        (last.ret <=> last.arg \in GrammarUniverse)

\* C6: position_sort_key is injective on the universe: two distinct universe
\* codes have different keys, exactly one of which is smaller, and sorting
\* the universe from another input order yields the same sequence.
C6_SortKeyInjective ==
    /\ (last.op = "position_sort_key" /\ last.done
            /\ last.arg[1] # last.arg[2]) =>
          /\ last.ret[1] # last.ret[2]
          /\ TupleLess(last.ret[1], last.ret[2])
                 # TupleLess(last.ret[2], last.ret[1])
    /\ (last.op = "SORTED_POSITIONS" /\ last.done) =>
          last.ret = sorted(Reverse(ALL_POSITIONS),
                            sort_keys(Reverse(ALL_POSITIONS)))

C6_Witness ==
    /\ last.op = "position_sort_key" /\ last.done
    /\ last.arg = <<C1ROLL, C1ROL>>
    /\ last.ret = <<(<<0, 1, 0, 0, 0>>), (<<0, 1, 0, 0, 1>>)>>

\* The canonical order as the design states it, on codes of the grammar
CanonNumber(c) == StrToInt(<<IF c[1] = "C" THEN c[2] ELSE c[3]>>)

CanonRank(order, v) == CHOOSE i \in 1..Len(order) : order[i] = v

CanonTuple(c) ==
    IF c[1] = "C"
    THEN <<CanonNumber(c),
           CanonRank(<<"R", "L">>, c[3]),
           CanonRank(<<"O", "M", "U">>, c[4]),
           CanonRank(<< <<"L", "L">>, <<"L">>, <<"M", "M">>, <<"M">>,
                        <<"R", "R">>, <<"R">> >>, SubSeq(c, 5, Len(c)))>>
    ELSE <<CanonNumber(c),
           CanonRank(<<"O", "M", "U">>, c[4]),
           CanonRank(<<"L", "M", "R">>, c[5])>>

CanonBefore(a, b) ==
    IF a[1] # b[1] THEN a[1] = "C"
    ELSE TupleLess(CanonTuple(a), CanonTuple(b))

\* C7: in the canonical order every container code precedes every garage
\* code; container codes are ordered by number, then side R before L, then
\* level O, M, U, then slot LL, L, MM, M, RR, R; garage codes by shelf, then
\* level O, M, U, then slot L, M, R.  Both the keys and SORTED_POSITIONS
\* follow it.
C7_CanonicalOrder ==
    /\ (last.op = "position_sort_key" /\ last.done) =>
          (TupleLess(last.ret[1], last.ret[2])
               <=> CanonBefore(last.arg[1], last.arg[2]))
    /\ (last.op = "SORTED_POSITIONS" /\ last.done) =>
          \A i, j \in 1..Len(last.ret) :
              i < j => CanonBefore(last.ret[i], last.ret[j])

C7_Witness ==
    /\ last.op = "position_sort_key" /\ last.done
    /\ last.arg = <<C1ROLL, C1LOLL>>
    /\ TupleLess(last.ret[1], last.ret[2])


(***************************************************************************)
(* SpecFree: free_positions and first_free_position on drawn table states  *)
(***************************************************************************)
MaxProbe == 3

\* codes whose presence or absence is varied
ProbeList == <<C1ROLL, C1ROL, GR1OL, C1LOLL, <<"G", "R", "8", "U", "R">>,
               <<"C", "4", "L", "U", "R">> >>

ProbeCodes == {ProbeList[i] : i \in 1..(IF MaxProbe < Len(ProbeList)
                                         THEN MaxProbe ELSE Len(ProbeList))}

\* a row of wheel_sets as the create route fills it
WheelSet(id, customer_name, license_plate, car_type, storage_position) ==
    [id |-> id, customer_name |-> customer_name, license_plate |-> license_plate,
     car_type |-> car_type, storage_position |-> storage_position]

\* one row per code, with ids in the order of ALL_POSITIONS
RowsAt(codes) ==
    {WheelSet(CHOOSE i \in 1..Len(ALL_POSITIONS) : ALL_POSITIONS[i] = c,
              <<"K">>, <<"P">>, <<"T">>, c) : c \in codes}

OccupiedChoices ==
    {S : S \in SUBSET ProbeCodes} \cup {GrammarUniverse \ S : S \in SUBSET ProbeCodes}

\* disabled codes: codes of the universe and the code disable_position
\* stores when given "C1ROLL\n"
DisabledChoices ==
    LET probe == ProbeCodes \cup {C1ROLL \o <<LF>>}
    IN  {S : S \in SUBSET probe} \cup {GrammarUniverse \ S : S \in SUBSET ProbeCodes}

\* codes asked of is_usable_position
UsableInputs == {C1ROLL, C1ROL, C1ROLL \o <<LF>>, <<"C", "1">>}

InitFree ==
    /\ \E occ \in OccupiedChoices : wheel_sets = RowsAt(occ)
    /\ disabled_positions \in DisabledChoices
    /\ audit_log = <<>>
    /\ IdleThreads
    /\ DeskOff
    /\ BackupOff
    /\ last \in {Pending("free_positions", <<>>),
                 Pending("first_free_position", <<>>)}
                \cup {Pending("is_usable_position", c) : c \in UsableInputs}

CallFreePositions ==
    /\ last.op = "free_positions" /\ ~last.done
    /\ last' = Returned(last, free_positions(wheel_sets, disabled_positions))
    /\ UNCHANGED <<backup_vars, wheel_sets, disabled_positions, audit_log, pc, req>>

CallFirstFreePosition ==
    /\ last.op = "first_free_position" /\ ~last.done
    /\ last' = Returned(last, first_free_position(wheel_sets, disabled_positions))
    /\ UNCHANGED <<backup_vars, wheel_sets, disabled_positions, audit_log, pc, req>>

CallIsUsablePosition ==
    /\ last.op = "is_usable_position" /\ ~last.done
    /\ last' = Returned(last, is_usable_position(disabled_positions, last.arg))
    /\ UNCHANGED <<backup_vars, wheel_sets, disabled_positions, audit_log, pc, req>>

NextFree ==
    \/ CallFreePositions
    \/ CallFirstFreePosition
    \/ CallIsUsablePosition

SpecFree == InitFree /\ [][NextFree]_vars

Occupied == {w.storage_position : w \in wheel_sets}

\* C2: free_positions returns exactly the universe codes that are neither
\* occupied nor disabled, each once, in strictly ascending sort_key order;
\* with occupied = {C1ROLL} and nothing disabled, the other 215 codes.
C2_FreePositions ==
    (last.op = "free_positions" /\ last.done) =>
        LET r == last.ret
        IN  /\ Range(r) = GrammarUniverse \ (Occupied \cup disabled_positions)
            /\ Len(r) = Cardinality(Range(r))
            /\ \A i \in 1..(Len(r) - 1) :
                   TupleLess(position_sort_key(r[i]), position_sort_key(r[i + 1]))
            /\ (Occupied = {C1ROLL} /\ disabled_positions = {}) =>
                   (Len(r) = 215 /\ C1ROLL \notin Range(r))

C2_Witness ==
    /\ last.op = "free_positions" /\ last.done
    /\ Occupied = {C1ROLL} /\ disabled_positions = {}
    /\ Len(last.ret) = 215
    /\ last.ret[1] = C1ROL

\* C3: first_free_position returns none exactly when every universe code is
\* occupied or disabled, and otherwise the first element of free_positions
\* for the same tables, which is the canonically smallest free code.
C3_FirstFreePosition ==
    (last.op = "first_free_position" /\ last.done) =>
        LET free == GrammarUniverse \ (Occupied \cup disabled_positions)
        IN  /\ (last.ret = None) <=> (free = {})
            /\ (free # {}) =>
                  /\ last.ret = free_positions(wheel_sets, disabled_positions)[1]
                  /\ last.ret \in free
                  /\ \A c \in free :
                         c = last.ret \/ TupleLess(position_sort_key(last.ret),
                                                   position_sort_key(c))

C3_Witness ==
    /\ last.op = "first_free_position" /\ last.done
    /\ last.ret = None
    /\ Occupied # {} /\ disabled_positions # {}
    /\ Occupied # GrammarUniverse /\ disabled_positions # GrammarUniverse


\* C11: is_usable_position(code) is true exactly when the code is a code of
\* the position grammar and is not in the disabled set, whether or not a
\* wheel set occupies it.
C11_UsableIffValidAndEnabled ==
    (last.op = "is_usable_position" /\ last.done) =>
        (last.ret <=> (/\ last.arg \in GrammarUniverse
                       /\ last.arg \notin disabled_positions))

(***************************************************************************)
(* SpecDisable: any sequence of disable_position and enable_position calls *)
(* on an initially empty disabled_positions table.  A call record carries  *)
(* the table as it was when the call was made (before).                    *)
(***************************************************************************)
C5ROLL == <<"C", "5", "R", "O", "L", "L">>
GR9OM == <<"G", "R", "9", "O", "M">>

DisableInputs ==
    ProbeCodes
    \cup {c \o <<LF>> : c \in ProbeCodes}
    \cup {<<" ">> \o c : c \in ProbeCodes}
    \cup {lower(c) : c \in ProbeCodes}
    \cup {C5ROLL, GR9OM, <<>>}

InitDisable ==
    /\ EmptyDb
    /\ IdleThreads
    /\ DeskOff
    /\ BackupOff
    /\ last = [op |-> None, arg |-> <<>>, ret |-> None, done |-> FALSE,
               before |-> {}]

DisablePosition(code) ==
    LET r == disable_position(disabled_positions, code)
    IN  /\ last' = [op |-> "disable_position", arg |-> code, ret |-> r[1],
                    done |-> TRUE, before |-> disabled_positions]
        /\ disabled_positions' = r[2]
        /\ UNCHANGED <<backup_vars, wheel_sets, audit_log, pc, req>>

EnablePosition(code) ==
    LET r == enable_position(disabled_positions, code)
    IN  /\ last' = [op |-> "enable_position", arg |-> code, ret |-> r[1],
                    done |-> TRUE, before |-> disabled_positions]
        /\ disabled_positions' = r[2]
        /\ UNCHANGED <<backup_vars, wheel_sets, audit_log, pc, req>>

NextDisable ==
    \/ \E code \in DisableInputs : DisablePosition(code)
    \/ \E code \in DisableInputs : EnablePosition(code)

SpecDisable == InitDisable /\ [][NextDisable]_vars

\* C8 (as claimed): disable_position returns false and leaves the disabled
\* set unchanged when the code is not a code of the grammar or is already
\* disabled; otherwise it returns true and the set becomes the old set plus
\* the code; a second call with the same code returns false and changes
\* nothing.
C8_DisableAsClaimed ==
    [][(last'.op = "disable_position" /\ last'.done) =>
          /\ IF last'.arg \notin GrammarUniverse \/ last'.arg \in disabled_positions
             THEN last'.ret = FALSE /\ disabled_positions' = disabled_positions
             ELSE last'.ret = TRUE
                  /\ disabled_positions' = disabled_positions \cup {last'.arg}
          /\ (last.op = "disable_position" /\ last.arg = last'.arg /\ last.ret = TRUE) =>
                 (last'.ret = FALSE /\ disabled_positions' = disabled_positions)
      ]_vars

\* C9: enable_position returns false and leaves the disabled set unchanged
\* when the code is not disabled; otherwise it returns true and removes
\* exactly that code.  After a successful disable followed by enable of the
\* same code the set equals the set before the disable.
C9_Enable ==
    [][(last'.op = "enable_position" /\ last'.done) =>
          /\ IF last'.arg \notin disabled_positions
             THEN last'.ret = FALSE /\ disabled_positions' = disabled_positions
             ELSE last'.ret = TRUE
                  /\ disabled_positions' = disabled_positions \ {last'.arg}
          /\ (last.op = "disable_position" /\ last.arg = last'.arg /\ last.ret = TRUE) =>
                 (last'.ret = TRUE /\ disabled_positions' = last.before)
      ]_vars

\* a successful enable that left another code disabled
C9_Witness ==
    /\ last.op = "enable_position" /\ last.done
    /\ last.ret = TRUE
    /\ last.arg = C1ROLL
    /\ last.before = {C1ROLL, C1ROL}
    /\ disabled_positions = {C1ROL}

\* C10 (as claimed): after any sequence of disable_position and
\* enable_position calls with arbitrary string arguments, every code in the
\* disabled set is a code of the 216-code universe.
C10_DisabledWithinUniverse ==
    disabled_positions \subseteq GrammarUniverse


(***************************************************************************)
(* Spec: the record routes of src/routes.py, each request on its own       *)
(* thread with its own session.  A handler is cut where it talks to the    *)
(* database: every SELECT and every commit is one step; what a handler     *)
(* computes on its locals in between belongs to the step before.           *)
(***************************************************************************)
MaxAudit == 3

\* request.form as posted
Form(customer_name, storage_position) ==
    [customer_name |-> customer_name, license_plate |-> <<"P">>,
     car_type |-> <<"T">>, storage_position |-> storage_position]

Forms ==
    {Form(<<"K">>, C1ROLL),
     Form(<<"K">>, <<" ">> \o C1ROL \o <<LF>>),
     Form(<<"K">>, C5ROLL),
     Form(<<" ">>, C1ROLL)}

ConfirmPlates == {<<"P">>, <<>>}

Wids == 1..2

\* log_action(db, action, wheelset_id, details): the row added to audit_log
AuditLog(action, wheelset_id, details) ==
    [action |-> action, wheelset_id |-> wheelset_id, details |-> details]

\* the unique constraint is missing
UniqueViolation_unenforced(ws, id, storage_position) == FALSE

\* UniqueConstraint("storage_position"): would row id with this position
\* collide with another row
UniqueViolation(ws, id, storage_position) ==
    \E w \in ws : w.id # id /\ w.storage_position = storage_position

\* the integer primary key SQLite gives a new row: one more than the largest
NewId(ws) ==
    IF ws = {} THEN 1
    ELSE 1 + (CHOOSE n \in {w.id : w \in ws} : \A w \in ws : w.id <= n)

\* db.query(WheelSet).get(wid); NoRow stands for Python's None
NoRow == [id |-> 0]

GetWheelSet(ws, wid) ==
    IF \E w \in ws : w.id = wid THEN CHOOSE w \in ws : w.id = wid ELSE NoRow

\* the stripped form fields, and the validation both POST handlers share:
\* "ok", or the reason of the redirect
Stripped(form) ==
    [customer_name |-> strip(form.customer_name),
     license_plate |-> strip(form.license_plate),
     car_type |-> strip(form.car_type),
     storage_position |-> strip(form.storage_position)]

\* a validation that asks is_usable_position
ValidateForm_usable(f, occupied) ==
    IF \/ f.customer_name = <<>> \/ f.license_plate = <<>>
       \/ f.car_type = <<>> \/ f.storage_position = <<>>
    THEN "missing"
    ELSE IF ~is_usable_position(disabled_positions, f.storage_position)
    THEN "invalid"
    ELSE IF f.storage_position \in occupied THEN "occupied"
    ELSE "ok"

ValidateForm(f, occupied) ==
    IF \/ f.customer_name = <<>> \/ f.license_plate = <<>>
       \/ f.car_type = <<>> \/ f.storage_position = <<>>
    THEN "missing"
    ELSE IF ~is_valid_position(f.storage_position) THEN "invalid"
    ELSE IF f.storage_position \in occupied THEN "occupied"
    ELSE "ok"

Respond(t) ==
    /\ pc' = [pc EXCEPT ![t] = "idle"]
    /\ req' = [req EXCEPT ![t] = NoReq]

Goto(t, label, r) ==
    /\ pc' = [pc EXCEPT ![t] = label]
    /\ req' = [req EXCEPT ![t] = r]

\* ---- create_wheelset (POST) ----
\* occupied = get_occupied_positions(db), then the checks on the form
CreateRead(t, form) ==
    /\ pc[t] = "idle"
    /\ Len(audit_log) < MaxAudit
    /\ LET occupied == get_occupied_positions(wheel_sets)
           f == Stripped(form)
       IN  IF ValidateForm(f, occupied) # "ok"
           THEN Respond(t)
           ELSE Goto(t, "create_commit",
                     [kind |-> "create", form |-> f, occupied |-> occupied])
    /\ UNCHANGED <<backup_vars, wheel_sets, disabled_positions, audit_log, last>>

\* a handler that writes the audit entry before it commits the row
CreateCommit_logged_first(t) ==
    /\ pc[t] = "create_commit"
    /\ LET f  == req[t].form
           id == NewId(wheel_sets)
       IN  /\ audit_log' = Append(audit_log,
                   AuditLog("create", id, <<f.storage_position>>))
           /\ IF UniqueViolation(wheel_sets, id, f.storage_position)
              THEN /\ Respond(t)
                   /\ UNCHANGED wheel_sets
              ELSE /\ wheel_sets' = wheel_sets \cup
                          {WheelSet(id, f.customer_name, f.license_plate,
                                    f.car_type, f.storage_position)}
                   /\ Respond(t)
    /\ UNCHANGED <<backup_vars, disabled_positions, last>>

\* db.add(w); db.commit(), or IntegrityError and rollback
CreateCommit(t) ==
    /\ pc[t] = "create_commit"
    /\ LET f  == req[t].form
           id == NewId(wheel_sets)
       IN  IF UniqueViolation(wheel_sets, id, f.storage_position)
           THEN /\ Respond(t)
                /\ UNCHANGED wheel_sets
           ELSE /\ wheel_sets' = wheel_sets \cup
                       {WheelSet(id, f.customer_name, f.license_plate,
                                 f.car_type, f.storage_position)}
                /\ Goto(t, "create_log", [kind |-> "create", wid |-> id])
    /\ UNCHANGED <<backup_vars, disabled_positions, audit_log, last>>

\* log_action(db, "create", w.id, ...): the commit has expired w, so w.id and
\* w.storage_position are loaded again; ObjectDeletedError when the row is gone
CreateLog(t) ==
    /\ pc[t] = "create_log"
    /\ LET w == GetWheelSet(wheel_sets, req[t].wid)
       IN  IF w = NoRow THEN UNCHANGED audit_log
           ELSE audit_log' = Append(audit_log,
                    AuditLog("create", w.id, <<w.storage_position>>))
    /\ Respond(t)
    /\ UNCHANGED <<backup_vars, wheel_sets, disabled_positions, last>>

\* ---- edit_wheelset (POST) ----
\* w = db.query(WheelSet).get(wid), 404 when there is none
EditGet(t, wid, form) ==
    /\ pc[t] = "idle"
    /\ Len(audit_log) < MaxAudit
    /\ LET w == GetWheelSet(wheel_sets, wid)
       IN  IF w = NoRow THEN Respond(t)
           ELSE Goto(t, "edit_read",
                     [kind |-> "edit", wid |-> wid, w |-> w, form |-> Stripped(form)])
    /\ UNCHANGED <<backup_vars, wheel_sets, disabled_positions, audit_log, last>>

\* occupied = get_occupied_positions(db) without w's own position, then the
\* checks on the form
EditRead(t) ==
    /\ pc[t] = "edit_read"
    /\ LET occupied == get_occupied_positions(wheel_sets)
                           \ {req[t].w.storage_position}
       IN  IF ValidateForm(req[t].form, occupied) # "ok"
           THEN Respond(t)
           ELSE Goto(t, "edit_commit", [req[t] EXCEPT !.kind = "edit"])
    /\ UNCHANGED <<backup_vars, wheel_sets, disabled_positions, audit_log, last>>

FormFields == {"customer_name", "license_plate", "car_type", "storage_position"}

\* db.commit(): the UPDATE sets the attributes whose value differs from the
\* loaded one, on the row with this id.  No attribute differs: no UPDATE.
\* No such row any more: StaleDataError, which the handler does not catch.
\* A position another row holds: IntegrityError and rollback.
EditCommit(t) ==
    /\ pc[t] = "edit_commit"
    /\ LET f       == req[t].form
           w       == req[t].w
           changed == {a \in FormFields : f[a] # w[a]}
           cur     == GetWheelSet(wheel_sets, req[t].wid)
       IN  IF changed = {}
           THEN /\ Goto(t, "edit_log", [req[t] EXCEPT !.kind = "edit"])
                /\ UNCHANGED wheel_sets
           ELSE IF cur = NoRow
           THEN /\ Respond(t)
                /\ UNCHANGED wheel_sets
           ELSE IF /\ "storage_position" \in changed
                   /\ UniqueViolation(wheel_sets, cur.id, f.storage_position)
           THEN /\ Respond(t)
                /\ UNCHANGED wheel_sets
           ELSE /\ wheel_sets' = (wheel_sets \ {cur}) \cup
                       {[a \in DOMAIN cur |-> IF a \in changed THEN f[a] ELSE cur[a]]}
                /\ Goto(t, "edit_log", [req[t] EXCEPT !.kind = "edit"])
    /\ UNCHANGED <<backup_vars, disabled_positions, audit_log, last>>

\* log_action(db, "update", w.id, old_pos -> w.storage_position), w loaded
\* again as in CreateLog
EditLog(t) ==
    /\ pc[t] = "edit_log"
    /\ LET w == GetWheelSet(wheel_sets, req[t].wid)
       IN  IF w = NoRow THEN UNCHANGED audit_log
           ELSE audit_log' = Append(audit_log,
                    AuditLog("update", w.id,
                             <<req[t].w.storage_position, w.storage_position>>))
    /\ Respond(t)
    /\ UNCHANGED <<backup_vars, wheel_sets, disabled_positions, last>>

\* ---- delete_wheelset (POST) ----
\* w = db.query(WheelSet).get(wid), 404 when there is none; the plate typed
\* must be w's
DeleteGet(t, wid, confirm_plate) ==
    /\ pc[t] = "idle"
    /\ Len(audit_log) < MaxAudit
    /\ LET w == GetWheelSet(wheel_sets, wid)
       IN  IF w = NoRow THEN Respond(t)
           ELSE IF strip(confirm_plate) # w.license_plate THEN Respond(t)
           ELSE Goto(t, "delete_commit",
                     [kind |-> "delete", wid |-> wid, pos |-> w.storage_position])
    /\ UNCHANGED <<backup_vars, wheel_sets, disabled_positions, audit_log, last>>

\* db.delete(w); db.commit(): DELETE of the row with this id; a row already
\* gone is only warned about
DeleteCommit(t) ==
    /\ pc[t] = "delete_commit"
    /\ wheel_sets' = {w \in wheel_sets : w.id # req[t].wid}
    /\ Goto(t, "delete_log", [req[t] EXCEPT !.kind = "delete"])
    /\ UNCHANGED <<backup_vars, disabled_positions, audit_log, last>>

\* log_action(db, "delete", wid, pos)
DeleteLog(t) ==
    /\ pc[t] = "delete_log"
    /\ audit_log' = Append(audit_log,
           AuditLog("delete", req[t].wid, <<req[t].pos>>))
    /\ Respond(t)
    /\ UNCHANGED <<backup_vars, wheel_sets, disabled_positions, last>>

Init ==
    /\ EmptyDb
    /\ IdleThreads
    /\ DeskOff
    /\ BackupOff
    /\ last = NoCall

Next ==
    \/ \E t \in Threads, form \in Forms : CreateRead(t, form)
    \/ \E t \in Threads : CreateCommit(t)
    \/ \E t \in Threads : CreateLog(t)
    \/ \E t \in Threads, wid \in Wids, form \in Forms : EditGet(t, wid, form)
    \/ \E t \in Threads : EditRead(t)
    \/ \E t \in Threads : EditCommit(t)
    \/ \E t \in Threads : EditLog(t)
    \/ \E t \in Threads, wid \in Wids, plate \in ConfirmPlates :
           DeleteGet(t, wid, plate)
    \/ \E t \in Threads : DeleteCommit(t)
    \/ \E t \in Threads : DeleteLog(t)

Spec == Init /\ [][Next]_vars

\* C1: after any interleaving of concurrent create, edit and delete requests
\* no two rows of wheel_sets hold the same storage position: of two requests
\* that both passed the "position not occupied" check for one code, the
\* uniqueness constraint lets at most one commit.
C1_PositionsUnique ==
    \A w1, w2 \in wheel_sets :
        w1.storage_position = w2.storage_position => w1 = w2

\* a create has committed a code for which another request, having passed
\* the same check, is about to commit
C1_Witness ==
    /\ pc["t1"] = "create_log"
    /\ pc["t2"] \in {"create_commit", "edit_commit"}
    /\ \E w \in wheel_sets :
           /\ w.id = req["t1"].wid
           /\ w.storage_position = req["t2"].form.storage_position

\* the request of thread t ends in this step without having reached its
\* log_action: a redirect after a failed check or a failed commit
Rejected(t) ==
    /\ pc[t] \in {"create_commit", "edit_read", "edit_commit"}
    /\ pc'[t] = "idle"

\* the step appends one audit entry with this action
Logs(action) ==
    /\ Len(audit_log') = Len(audit_log) + 1
    /\ audit_log'[Len(audit_log')].action = action

\* C28: a create or edit request that is rejected, by a check on the form or
\* by the uniqueness constraint at the commit, changes no record and writes
\* no audit entry; the steps before the commit change neither; a "create" or
\* "update" entry is appended only by a request whose commit has gone
\* through: the create has inserted its row, the edit has written the form's
\* fields to its row or had nothing to write.
C28_RejectedLeavesNoTrace ==
    /\ [][\A t \in Threads :
              Rejected(t) => wheel_sets' = wheel_sets /\ audit_log' = audit_log]_vars
    /\ [][\A t \in Threads :
              (pc[t] \in {"idle", "edit_read"} /\ pc'[t] # pc[t]) =>
                  wheel_sets' = wheel_sets /\ audit_log' = audit_log]_vars
    /\ [][Logs("create") =>
              \E t \in Threads : pc[t] = "create_log" /\ pc'[t] = "idle"]_vars
    /\ [][Logs("update") =>
              \E t \in Threads : pc[t] = "edit_log" /\ pc'[t] = "idle"]_vars
    /\ [][\A t \in Threads :
              (pc'[t] = "create_log" /\ pc[t] # "create_log") =>
                  /\ pc[t] = "create_commit"
                  /\ audit_log' = audit_log
                  /\ \E w \in wheel_sets' \ wheel_sets :
                         /\ w.id = req'[t].wid
                         /\ wheel_sets' = wheel_sets \cup {w}
                         /\ \A a \in FormFields : w[a] = req[t].form[a]]_vars
    /\ [][\A t \in Threads :
              (pc'[t] = "edit_log" /\ pc[t] # "edit_log") =>
                  /\ pc[t] = "edit_commit"
                  /\ audit_log' = audit_log
                  /\ \/ /\ wheel_sets' = wheel_sets
                        /\ \A a \in FormFields : req[t].form[a] = req[t].w[a]
                     \/ \E w \in wheel_sets' :
                            /\ w.id = req[t].wid
                            /\ \A a \in FormFields : w[a] = req[t].form[a]]_vars

\* an edit is about to be refused by the uniqueness constraint: the position
\* of its form was free when it was checked, and a create has since committed
\* it, whose audit entry is not written yet
C28_Witness ==
    /\ pc["t1"] = "edit_commit"
    /\ pc["t2"] = "create_log"
    /\ audit_log # <<>>
    /\ \A i \in 1..Len(audit_log) : audit_log[i].wheelset_id # req["t2"].wid
    /\ req["t1"].form.storage_position # req["t1"].w.storage_position
    /\ \E w \in wheel_sets :
           /\ w.id = req["t2"].wid
           /\ w.storage_position = req["t1"].form.storage_position

(***************************************************************************)
(* src/tsm/backup_manager.py: the BackupManager thread, perform_backup and *)
(* export_csv_snapshot, and the two routes of src/routes.py that call them *)
(* on a request thread.                                                    *)
(*                                                                         *)
(* A datetime is <<second, part>>: the second of the day and the part of   *)
(* that second (0: early, 1: late) that strftime("%H%M%S") drops.  A file  *)
(* of BACKUP_DIR is its name, a str.  A step that reads or writes a file   *)
(* or the database can raise; the step's ...Fails action is that outcome.  *)
(***************************************************************************)
PollSeconds == 30

\* the clock stops after this many poll periods
MaxTicks == 3

\* Python's max(a, b)
Max(a, b) == IF a > b THEN a ELSE b

\* timedelta(minutes=m), in seconds
timedelta_minutes_as_seconds(m) == m

timedelta_minutes(m) == 60 * m

\* (later - earlier) >= delta for two datetimes and a timedelta in seconds
elapsed_ge(later, earlier, delta) ==
    LET ds == later[1] - earlier[1]
    IN  ds > delta \/ (ds = delta /\ later[2] >= earlier[2])

\* run(): due is set only on the else branch of "self._last_run is None"
is_due_without_last_run(last_run, dt, interval) ==
    IF last_run = <<>> THEN TRUE
    ELSE elapsed_ge(dt, last_run[1], timedelta_minutes(interval))

is_due(last_run, dt, interval) ==
    IF last_run = <<>> THEN FALSE
    ELSE elapsed_ge(dt, last_run[1], timedelta_minutes(interval))

\* "while not self._stop.is_set()"
loop_condition_ignores_stop(stop) == TRUE

loop_condition(stop) == ~stop

\* "except Exception: pass" and then time.sleep(30); without the except
\* clause the exception would end run()
tick_after_exception_uncaught == "exited"

tick_after_exception == "sleep"

\* ---- file names ----
PREFIX == <<"w", "h", "e", "e", "l", "_", "s", "t", "o", "r", "a", "g", "e", "_">>
DB_EXT == <<".", "d", "b">>
CSV_EXT == <<".", "c", "s", "v">>

\* name.endswith(suffix)
endswith(name, suffix) ==
    /\ Len(name) >= Len(suffix)
    /\ SubSeq(name, Len(name) - Len(suffix) + 1, Len(name)) = suffix

\* "%H", "%M", "%S": two digits, zero-padded
Pad2(n) == IntToStr(n \div 10) \o IntToStr(n % 10)

\* "%Y%m%d" of the day the model runs on
YMD == <<"2", "0", "2", "5", "0", "1", "0", "1">>

\* a format that keeps the part of the second
strftime_with_part(dt) ==
    YMD \o <<"-">> \o Pad2(dt[1] \div 3600) \o Pad2((dt[1] % 3600) \div 60)
        \o Pad2(dt[1] % 60) \o IntToStr(dt[2])

\* dt.strftime("%Y%m%d-%H%M%S")
strftime(dt) ==
    YMD \o <<"-">> \o Pad2(dt[1] \div 3600) \o Pad2((dt[1] % 3600) \div 60)
        \o Pad2(dt[1] % 60)

\* f"wheel_storage_{ts}.db", f"wheel_storage_{ts}.csv"
backup_name(ts, ext) == PREFIX \o ts \o ext

\* the characters of the names and of the position codes, in the order of
\* their code points
CodePoints ==
    <<"-", ".", "0", "1", "2", "3", "4", "5", "6", "7", "8", "9",
      "C", "G", "L", "M", "O", "R", "U", "_",
      "a", "b", "c", "d", "e", "g", "h", "l", "n", "o", "r", "s", "t", "v", "w">>

\* the rank of ord(ch) among the characters used
ord(ch) == CHOOSE i \in 1..Len(CodePoints) : CodePoints[i] = ch

\* str < str: the first position where the two differ decides, by code
\* point; a proper prefix is smaller
str_less(a, b) ==
    LET n == IF Len(a) < Len(b) THEN Len(a) ELSE Len(b)
        d == {i \in 1..n : a[i] # b[i]}
    IN  IF d = {} THEN Len(a) < Len(b)
        ELSE LET i == CHOOSE i \in d : \A j \in d : i <= j
             IN  ord(a[i]) < ord(b[i])

\* sorted(names) of distinct names: a name goes behind the names smaller
\* than it
sorted_names(names) ==
    LET ahead == {<<x, Cardinality({y \in names : str_less(y, x)})>> : x \in names}
    IN  ToList([r \in 1..Cardinality(names) |->
                   (CHOOSE p \in ahead : p[2] = r - 1)[1]])

\* sorted([f for f in os.listdir(backup_dir)
\*         if f.startswith("wheel_storage_") and f.endswith(ext)])
listing(fs, ext) ==
    sorted_names({f \in fs : startswith(f, PREFIX) /\ endswith(f, ext)})

\* a pruning that drops the newest names
excess_newest(listed, keep) ==
    IF Len(listed) > keep THEN SubSeq(listed, keep + 1, Len(listed)) ELSE <<>>

\* backups[0:len(backups)-keep] when len(backups) > keep
excess(listed, keep) ==
    IF Len(listed) > keep THEN SubSeq(listed, 1, Len(listed) - keep) ELSE <<>>

\* a row of settings
Settings(id, backup_interval_minutes, backup_copies) ==
    [id |-> id, backup_interval_minutes |-> backup_interval_minutes,
     backup_copies |-> backup_copies]

\* db.query(Settings).first()
first_settings(st) ==
    IF st = {} THEN NoRow
    ELSE CHOOSE s \in st : \A q \in st : s.id <= q.id

\* a retention count one short
retention_one_short(st) ==
    LET s == first_settings(st)
    IN  Max(1, IF s = NoRow THEN 10 ELSE s.backup_copies) - 1

\* keep = max(1, settings.backup_copies if settings else 10)
retention(st) ==
    LET s == first_settings(st)
    IN  Max(1, IF s = NoRow THEN 10 ELSE s.backup_copies)

\* db.add(Settings(...)); db.commit(): the table has the primary key as its
\* only constraint, and the new row gets the next id
insert_settings(st, row) == st \cup {row}

\* the row get_or_create_settings and BackupManager.run add
DefaultSettings(st) == Settings(NewId(st), 60, 10)

\* ---- the CSV export ----
\* ORDER BY of the allocator's sort key
order_by_storage_position_canonical(ws) ==
    LET ahead == {<<w, Cardinality({v \in ws :
                         TupleLess(position_sort_key(v.storage_position),
                                   position_sort_key(w.storage_position))})>> :
                  w \in ws}
    IN  ToList([r \in 1..Cardinality(ws) |->
                   (CHOOSE p \in ahead : p[2] = r - 1)[1]])

\* db.query(WheelSet).order_by(WheelSet.storage_position.asc()).all(): the
\* column has SQLite's default collation, which compares the strings byte by
\* byte; storage_position is unique, so no two rows compare equal
order_by_storage_position(ws) ==
    LET ahead == {<<w, Cardinality({v \in ws :
                         str_less(v.storage_position, w.storage_position)})>> :
                  w \in ws}
    IN  ToList([r \in 1..Cardinality(ws) |->
                   (CHOOSE p \in ahead : p[2] = r - 1)[1]])

\* the header line and the line of a row, of the columns a row of the model
\* has
CSV_HEADER == <<"customer_name", "license_plate", "car_type", "storage_position">>

csv_row(r) ==
    <<r.customer_name, r.license_plate, r.car_type, r.storage_position>>

\* w.writerow(header); for r in rows: w.writerow([...])
csv_lines(rows) == <<CSV_HEADER>> \o ToList([i \in 1..Len(rows) |-> csv_row(rows[i])])

\* ---- the statements of perform_backup and export_csv_snapshot ----
\* an order that writes the audit entry before the CSV file
next_step_audit_first(op, step) ==
    IF op = "perform_backup"
    THEN CASE step = "begin"     -> "snapshot"
           [] step = "snapshot"  -> "audit"
           [] step = "audit"     -> "csv"
           [] step = "csv"       -> "csv_audit"
           [] step = "csv_audit" -> "list_db"
           [] step = "list_db"   -> "rm_db"
           [] step = "rm_db"     -> "list_csv"
           [] step = "list_csv"  -> "rm_csv"
           [] step = "rm_csv"    -> "returned"
    ELSE CASE step = "begin"     -> "csv"
           [] step = "csv"       -> "csv_audit"
           [] step = "csv_audit" -> "returned"

\* the statement that follows a statement
next_step(op, step) ==
    IF op = "perform_backup"
    THEN CASE step = "begin"     -> "snapshot"
           [] step = "snapshot"  -> "csv"
           [] step = "csv"       -> "csv_audit"
           [] step = "csv_audit" -> "audit"
           [] step = "audit"     -> "list_db"
           [] step = "list_db"   -> "rm_db"
           [] step = "rm_db"     -> "list_csv"
           [] step = "list_csv"  -> "rm_csv"
           [] step = "rm_csv"    -> "returned"
    ELSE CASE step = "begin"     -> "csv"
           [] step = "csv"       -> "csv_audit"
           [] step = "csv_audit" -> "returned"

\* an except clause that passes
after_failure_swallowed(step, next) == next

\* perform_backup and export_csv_snapshot have try ... finally and no except
\* clause: the exception leaves the function
after_failure(step, next) == "raised"

Proceed(r) == next_step(run[r].op, run[r].pc)

Raise(r) == after_failure(run[r].pc, Proceed(r))

Unchanged_tables == UNCHANGED <<wheel_sets, disabled_positions, pc, req, desk_vars>>

\* ts = datetime.now(timezone.utc).strftime(...) of perform_backup;
\* rows = db.query(WheelSet)... of export_csv_snapshot
Begin(r) ==
    /\ run[r].pc = "begin"
    /\ run' = [run EXCEPT ![r].pc = Proceed(r),
                          ![r].started = <<now>>,
                          ![r].ts = IF run[r].op = "perform_backup"
                                    THEN strftime(now) ELSE <<>>,
                          ![r].rows = IF run[r].op = "perform_backup"
                                      THEN <<>>
                                      ELSE order_by_storage_position(wheel_sets),
                          ![r].present = IF run[r].op = "perform_backup"
                                         THEN files ELSE {}]
    /\ Unchanged_tables
    /\ UNCHANGED <<audit_log, last, settings, files, now, sched>>

\* sqlite3.connect(bfile); src.backup(dest)
Snapshot(r) ==
    /\ run[r].pc = "snapshot"
    /\ LET bfile == backup_name(run[r].ts, DB_EXT)
       IN  /\ files' = files \cup {bfile}
           /\ run' = [run EXCEPT ![r].pc = Proceed(r),
                                 ![r].wrote = @ \cup {bfile}]
    /\ Unchanged_tables
    /\ UNCHANGED <<audit_log, last, settings, now, sched>>

\* the snapshot raises; the file may have been created already
SnapshotFails(r) ==
    /\ run[r].pc = "snapshot"
    /\ \E left \in BOOLEAN :
           files' = IF left THEN files \cup {backup_name(run[r].ts, DB_EXT)}
                    ELSE files
    /\ run' = [run EXCEPT ![r].pc = Raise(r), ![r].failed = "snapshot"]
    /\ Unchanged_tables
    /\ UNCHANGED <<audit_log, last, settings, now, sched>>

\* the target of export_csv_snapshot: the path given, or one named after the
\* time of the call
target_ts(r) ==
    IF run[r].op = "perform_backup" THEN run[r].ts ELSE strftime(now)

\* the rows export_csv_snapshot writes: perform_backup calls it here, so its
\* query runs now; the route's call has made the query already
target_rows(r) ==
    IF run[r].op = "perform_backup" THEN order_by_storage_position(wheel_sets)
    ELSE run[r].rows

\* with open(target_path, "w") ...: the header and the rows
WriteCsv(r) ==
    /\ run[r].pc = "csv"
    /\ LET csvfile == backup_name(target_ts(r), CSV_EXT)
       IN  /\ files' = files \cup {csvfile}
           /\ run' = [run EXCEPT ![r].pc = Proceed(r),
                                 ![r].ts = target_ts(r),
                                 ![r].rows = target_rows(r),
                                 ![r].wrote = @ \cup {csvfile},
                                 ![r].content = csv_lines(target_rows(r))]
    /\ Unchanged_tables
    /\ UNCHANGED <<audit_log, last, settings, now, sched>>

\* open or a write raises; the file may have been created already
WriteCsvFails(r) ==
    /\ run[r].pc = "csv"
    /\ \E left \in BOOLEAN :
           files' = IF left THEN files \cup {backup_name(target_ts(r), CSV_EXT)}
                    ELSE files
    /\ run' = [run EXCEPT ![r].pc = Raise(r), ![r].ts = target_ts(r),
                          ![r].failed = "csv"]
    /\ Unchanged_tables
    /\ UNCHANGED <<audit_log, last, settings, now, sched>>

\* db.add(AuditLog(action="backup_csv", ...)); db.commit()
CsvAudit(r) ==
    /\ run[r].pc = "csv_audit"
    /\ audit_log' = Append(audit_log,
           AuditLog("backup_csv", None,
                    <<"CSV exportiert: ", backup_name(run[r].ts, CSV_EXT)>>))
    /\ run' = [run EXCEPT ![r].pc = Proceed(r)]
    /\ Unchanged_tables
    /\ UNCHANGED <<last, settings, files, now, sched>>

\* db.add(AuditLog(action="backup", ...)); db.commit()
Audit(r) ==
    /\ run[r].pc = "audit"
    /\ audit_log' = Append(audit_log,
           AuditLog("backup", None,
                    <<"Backup erstellt: ", backup_name(run[r].ts, DB_EXT)>>))
    /\ run' = [run EXCEPT ![r].pc = Proceed(r), ![r].audited = @ + 1]
    /\ Unchanged_tables
    /\ UNCHANGED <<last, settings, files, now, sched>>

\* the commit of an audit entry raises
AuditFails(r) ==
    /\ run[r].pc \in {"csv_audit", "audit"}
    /\ run' = [run EXCEPT ![r].pc = Raise(r), ![r].failed = run[r].pc]
    /\ Unchanged_tables
    /\ UNCHANGED <<audit_log, last, settings, files, now, sched>>

family(label) == IF label \in {"list_db", "rm_db"} THEN DB_EXT ELSE CSV_EXT

\* keep is read before the first listing; backups = sorted([...])
List(r) ==
    /\ run[r].pc \in {"list_db", "list_csv"}
    /\ run' = [run EXCEPT ![r].pc = Proceed(r),
                          ![r].keep = IF run[r].pc = "list_db"
                                      THEN retention(settings) ELSE @,
                          ![r].listed = listing(files, family(run[r].pc)),
                          ![r].seen = Append(@, listing(files, family(run[r].pc)))]
    /\ Unchanged_tables
    /\ UNCHANGED <<audit_log, last, settings, files, now, sched>>

\* the settings query or os.listdir raises
ListFails(r) ==
    /\ run[r].pc \in {"list_db", "list_csv"}
    /\ run' = [run EXCEPT ![r].pc = Raise(r), ![r].failed = run[r].pc]
    /\ Unchanged_tables
    /\ UNCHANGED <<audit_log, last, settings, files, now, sched>>

\* for f in backups[0:len(backups)-keep]: os.remove(f), an exception passed
\* over.  At most one removal of the loop fails.
Remove(r) ==
    /\ run[r].pc \in {"rm_db", "rm_csv"}
    /\ LET ex == Range(excess(run[r].listed, run[r].keep))
       IN  \E gone \in {ex} \cup {ex \ {f} : f \in ex} :
               /\ files' = files \ gone
               /\ run' = [run EXCEPT
                      ![r].pc = Proceed(r),
                      ![r].listed = <<>>,
                      ![r].rm_failed = @ \/ gone # ex \/ ~(ex \subseteq files)]
    /\ Unchanged_tables
    /\ UNCHANGED <<audit_log, last, settings, now, sched>>

\* ---- run_backup and export_csv_now (src/routes.py) ----
RouteOps == {"perform_backup", "export_csv_snapshot"}

\* /backups/run: mgr.perform_backup(); /backups/export_csv:
\* export_csv_snapshot().  The request thread serves one request.
RouteCall(op) ==
    /\ run["request"].pc = "idle"
    /\ run["request"].calls = 0
    /\ run' = [run EXCEPT !["request"] =
                  [NoRun(run["request"].calls + 1) EXCEPT !.pc = "begin", !.op = op]]
    /\ Unchanged_tables
    /\ UNCHANGED <<audit_log, last, settings, files, now, sched>>

\* a route that stamps the thread's _last_run as run() does after its call
RouteRespond_stamps_last_run ==
    /\ run["request"].pc \in {"returned", "raised"}
    /\ last' = Returned(Pending(run["request"].op, run["request"].failed),
                        IF run["request"].pc = "raised" THEN "error" ELSE "success")
    /\ run' = [run EXCEPT !["request"] = NoRun(@.calls)]
    /\ sched' = [sched EXCEPT !.last_run = <<now>>]
    /\ Unchanged_tables
    /\ UNCHANGED <<audit_log, settings, files, now>>

\* flash(..., "success") after the call, flash(..., "error") in the
\* except clause of the route
RouteRespond ==
    /\ run["request"].pc \in {"returned", "raised"}
    /\ last' = Returned(Pending(run["request"].op, run["request"].failed),
                        IF run["request"].pc = "raised" THEN "error" ELSE "success")
    /\ run' = [run EXCEPT !["request"] = NoRun(@.calls)]
    /\ Unchanged_tables
    /\ UNCHANGED <<audit_log, settings, files, now, sched>>

\* ---- BackupManager.run ----
\* time.sleep(30) entered now
Sleep(s) == [s EXCEPT !.pc = "sleep", !.wake = <<now[1] + PollSeconds, now[2]>>]

\* the except clause of run()
Except(s, step) ==
    IF tick_after_exception = "sleep"
    THEN [Sleep(s) EXCEPT !.exc = step]
    ELSE [s EXCEPT !.pc = tick_after_exception, !.exc = step]

\* while not self._stop.is_set():
LoopCheck ==
    /\ sched.pc = "check"
    /\ sched' = IF loop_condition(sched.stop)
                THEN [sched EXCEPT !.pc = "tick", !.tick = @ + 1, !.exc = None]
                ELSE [sched EXCEPT !.pc = "exited"]
    /\ Unchanged_tables
    /\ UNCHANGED <<audit_log, last, settings, files, now, run>>

\* interval, due, self._last_run and db.close(), then perform_backup when due
Decide(row) ==
    LET interval == Max(1, row.backup_interval_minutes)
        due      == is_due(sched.last_run, now, interval)
        s        == [sched EXCEPT !.last_run = IF @ = <<>> THEN <<now>> ELSE @]
    IN  IF due
        THEN /\ sched' = [s EXCEPT !.pc = "backup"]
             /\ run' = [run EXCEPT !["periodic"] =
                           [NoRun(0) EXCEPT
                               !.pc = "begin", !.op = "perform_backup"]]
        ELSE /\ sched' = Sleep(s)
             /\ UNCHANGED run

\* settings = db.query(Settings).first()
TickRead ==
    /\ sched.pc = "tick"
    /\ LET row == first_settings(settings)
       IN  IF row = NoRow
           THEN sched' = [sched EXCEPT !.pc = "create"] /\ UNCHANGED run
           ELSE Decide(row)
    /\ Unchanged_tables
    /\ UNCHANGED <<audit_log, last, settings, files, now>>

\* db.add(Settings(backup_interval_minutes=60, backup_copies=10)); db.commit()
TickCreate ==
    /\ sched.pc = "create"
    /\ LET row == DefaultSettings(settings)
       IN  /\ settings' = insert_settings(settings, row)
           /\ Decide(row)
    /\ Unchanged_tables
    /\ UNCHANGED <<audit_log, last, files, now>>

\* the settings query or the commit raises
TickFails ==
    /\ sched.pc \in {"tick", "create"}
    /\ sched' = Except(sched, sched.pc)
    /\ Unchanged_tables
    /\ UNCHANGED <<audit_log, last, settings, files, now, run>>

\* perform_backup() returned: self._last_run = datetime.now(timezone.utc)
BackupReturned ==
    /\ sched.pc = "backup"
    /\ run["periodic"].pc = "returned"
    /\ sched' = Sleep([sched EXCEPT !.last_run = <<now>>, !.failed_at = <<>>])
    /\ run' = [run EXCEPT !["periodic"] = NoRun(0)]
    /\ Unchanged_tables
    /\ UNCHANGED <<audit_log, last, settings, files, now>>

\* perform_backup() raised
BackupRaised ==
    /\ sched.pc = "backup"
    /\ run["periodic"].pc = "raised"
    /\ sched' = Except([sched EXCEPT !.failed_at = <<now>>],
                       run["periodic"].failed)
    /\ run' = [run EXCEPT !["periodic"] = NoRun(0)]
    /\ Unchanged_tables
    /\ UNCHANGED <<audit_log, last, settings, files, now>>

\* time.sleep(30) returns
Wake ==
    /\ sched.pc = "sleep"
    /\ elapsed_ge(now, sched.wake, 0)
    /\ sched' = [sched EXCEPT !.pc = "check"]
    /\ Unchanged_tables
    /\ UNCHANGED <<audit_log, last, settings, files, now, run>>

\* BackupManager.stop()
Stop ==
    /\ ~sched.stop
    /\ sched' = [sched EXCEPT !.stop = TRUE]
    /\ Unchanged_tables
    /\ UNCHANGED <<audit_log, last, settings, files, now, run>>

\* time passes: to the late part of the second, then to the second of the
\* next poll period
LastSecond == StartOfRun[1] + PollSeconds * MaxTicks

Advance ==
    /\ now[2] = 0 \/ now[1] < LastSecond
    /\ now' = IF now[2] = 0 THEN <<now[1], 1>> ELSE <<now[1] + PollSeconds, 0>>
    /\ Unchanged_tables
    /\ UNCHANGED <<audit_log, last, settings, files, sched, run>>

\* ---- SpecSched: the BackupManager thread alone, from its start ----
\* backups left by earlier runs of the program, written at 00:00:01 ...
OldBackups(n, ext) == {backup_name(strftime(<<i, 0>>), ext) : i \in 1..n}

\* a file of BACKUP_DIR that is no backup
NOTES == <<"n", "o", "t", "e", "s", ".", "d", "b">>

SettingsChoices == {{}, {Settings(1, 1, 1)}, {Settings(1, 1, 2)}}

InitSched ==
    /\ EmptyDb
    /\ IdleThreads
    /\ DeskOff
    /\ last = NoCall
    /\ settings \in SettingsChoices
    /\ files \in {{NOTES}, OldBackups(2, DB_EXT) \cup {NOTES}}
    /\ now = StartOfRun
    /\ sched = SchedStart
    /\ run = [r \in Runners |-> NoRun(0)]

RunStep(r) ==
    \/ Begin(r)
    \/ Snapshot(r)
    \/ SnapshotFails(r)
    \/ WriteCsv(r)
    \/ WriteCsvFails(r)
    \/ CsvAudit(r)
    \/ Audit(r)
    \/ AuditFails(r)
    \/ List(r)
    \/ ListFails(r)
    \/ Remove(r)

NextSched ==
    \/ LoopCheck
    \/ TickRead
    \/ TickCreate
    \/ TickFails
    \/ BackupReturned
    \/ BackupRaised
    \/ Wake
    \/ Stop
    \/ Advance
    \/ RunStep("periodic")

SpecSched == InitSched /\ [][NextSched]_vars

\* ---- SpecBackup: the thread and a request thread, one poll period ----
\* The thread is either just started, or was started a minute before the
\* last second of the clock: its first tick set _last_run, its second tick,
\* half a minute later, was not due, and it sleeps until that last second.
SchedRunning ==
    [SchedStart EXCEPT !.pc = "sleep", !.tick = 2,
                       !.last_run = <<(<<LastSecond - 60, 0>>)>>,
                       !.wake = <<LastSecond, 0>>]

\* the settings row, and the number of old .db and .csv backups
BackupChoices ==
    {<<{}, 10, 2>>, <<{Settings(1, 1, 2)}, 2, 0>>, <<{Settings(1, 1, 1)}, 1, 1>>}

InitBackup ==
    /\ EmptyDb
    /\ IdleThreads
    /\ DeskOff
    /\ last = NoCall
    /\ \E c \in BackupChoices :
           /\ settings = c[1]
           /\ sched = IF c[1] = {} THEN SchedStart ELSE SchedRunning
           /\ files = OldBackups(c[2], DB_EXT) \cup OldBackups(c[3], CSV_EXT)
                          \cup {NOTES}
    /\ now = <<LastSecond - PollSeconds, 0>>
    /\ run = [r \in Runners |-> NoRun(0)]

NextBackup ==
    \/ LoopCheck
    \/ TickRead
    \/ TickCreate
    \/ TickFails
    \/ BackupReturned
    \/ BackupRaised
    \/ Wake
    \/ Advance
    \/ \E op \in RouteOps : RouteCall(op)
    \/ RouteRespond
    \/ \E r \in Runners : RunStep(r)

SpecBackup == InitBackup /\ [][NextBackup]_vars

(***************************************************************************)
(* Properties of the BackupManager thread (SpecSched)                      *)
(***************************************************************************)
\* the iteration of the poll loop is at its settings query or its commit
InTick == sched.pc \in {"tick", "create"}

\* C12: on the first iteration of its poll loop the thread starts no backup,
\* whatever the configured interval: no file and no audit entry is written,
\* and the only value the iteration gives _last_run is the current time,
\* which it does when its settings query and commit do not raise.
C12_FirstTickNoBackup ==
    [][(sched.tick = 1 /\ InTick) =>
          /\ sched'.pc # "backup"
          /\ run' = run /\ run["periodic"].pc = "idle"
          /\ files' = files /\ audit_log' = audit_log
          /\ sched'.last_run \in {sched.last_run, <<now>>}
          /\ (sched'.pc = "sleep" /\ sched'.exc = None) =>
                 sched'.last_run = <<now>>]_vars

C12_Witness ==
    /\ sched.tick = 1 /\ sched.pc = "sleep" /\ sched.exc = None
    /\ sched.last_run = <<StartOfRun>>
    /\ settings = {Settings(1, 1, 1)}
    /\ now[1] > StartOfRun[1]

\* the configured interval in minutes, at least 1; 60 in the row the thread
\* creates when there is none
ConfiguredMinutes ==
    LET s == first_settings(settings)
    IN  IF s = NoRow THEN 60
        ELSE IF s.backup_interval_minutes < 1 THEN 1
        ELSE s.backup_interval_minutes

\* the time since t is at least the configured interval, counted in halves
\* of a second
IntervalElapsedSince(t) ==
    2 * (now[1] - t[1]) + (now[2] - t[2]) >= 2 * 60 * ConfiguredMinutes

IntervalElapsed ==
    sched.last_run # <<>> /\ IntervalElapsedSince(sched.last_run[1])

\* the iteration leaves its settings query and commit
TickDecides == InTick /\ ~(sched'.pc \in {"tick", "create"})

C14_NoRetryBeforeInterval ==
    [][(sched.failed_at # <<>> /\ sched.pc # "backup" /\ sched'.pc = "backup") =>
          IntervalElapsedSince(sched.failed_at[1])]_vars

\* C15: a statement of an iteration that raises (the settings query, the
\* snapshot, the CSV export, an audit write, the pruning) does not end the
\* loop: the thread goes to its sleep and from there to the next test of the
\* stop event, and run() ends only when the stop event is set.
C15_FailureKeepsLoop ==
    /\ [](sched.pc = "exited" => sched.stop)
    /\ [][/\ (sched'.exc # None /\ sched'.exc # sched.exc) =>
                 sched'.pc = "sleep"
          /\ (run["periodic"].pc = "raised" /\ run'["periodic"].pc # "raised") =>
                 (sched'.pc = "sleep" /\ sched'.exc = run["periodic"].failed)
          /\ (sched.pc = "sleep" /\ sched'.pc # "sleep") => sched'.pc = "check"
          /\ (sched.pc = "check" /\ sched'.pc # "check" /\ ~sched.stop) =>
                 sched'.pc = "tick"]_vars

\* a periodic backup has failed and the loop is in a later iteration
C15_Witness ==
    /\ sched.failed_at # <<>> /\ sched.pc = "tick" /\ ~sched.stop

\* C16: once stop() has been called the loop ends at its next test of the
\* stop event and stays ended; the ended thread starts no backup; stop()
\* does not touch a backup in progress, which runs until it returns or
\* raises.
C16_StopEndsLoop ==
    [][/\ (sched.pc = "check" /\ sched.stop /\ sched'.pc # "check") =>
              sched'.pc = "exited"
       /\ sched.pc = "exited" =>
              (sched' = sched /\ run["periodic"].pc = "idle" /\ run' = run)
       /\ (sched'.stop /\ ~sched.stop) =>
              (sched'.pc = sched.pc /\ run' = run /\ files' = files)
       /\ (sched.pc = "backup" /\ sched'.pc # "backup") =>
              run["periodic"].pc \in {"returned", "raised"}]_vars

\* the loop has ended, after a backup that ran to its end
C16_Witness ==
    /\ sched.pc = "exited" /\ sched.stop
    /\ sched.last_run # <<>> /\ sched.last_run[1][1] > StartOfRun[1]
    /\ \E i \in 1..Len(audit_log) : audit_log[i].action = "backup"

(***************************************************************************)
(* Properties of perform_backup and export_csv_snapshot (SpecBackup)       *)
(***************************************************************************)
\* the files of a family: the backup prefix and the family's extension
FamilyOf(fs, ext) == {f \in fs : startswith(f, PREFIX) /\ endswith(f, ext)}

\* the n lexicographically greatest of a set of names
Greatest(names, n) ==
    {x \in names : Cardinality({y \in names : str_less(x, y)}) < n}

Min(a, b) == IF a < b THEN a ELSE b

\* the retention count: backup_copies, at least 1; 10 without a settings row
RetentionCount ==
    LET s == first_settings(settings)
    IN  IF s = NoRow THEN 10
        ELSE IF s.backup_copies < 1 THEN 1
        ELSE s.backup_copies

\* the family holds the n greatest of the names listed, all of them when
\* there are no more than n
HoldsGreatest(fs, ext, listed, n) ==
    /\ FamilyOf(fs, ext) = Greatest(Range(listed), n)
    /\ Cardinality(FamilyOf(fs, ext)) = Min(n, Len(listed))

BackupEntries(log) == {i \in 1..Len(log) : log[i].action = "backup"}

\* C18: a perform_backup that returns has written the snapshot and the CSV
\* file under one timestamp token and has added exactly one audit entry with
\* action "backup", which names the snapshot file; that entry is added only
\* when both files have been written.
C18_OneAuditAfterBothFiles ==
    [][/\ \A r \in Runners :
              (run[r].op = "perform_backup" /\ run[r].pc # "returned"
                   /\ run'[r].pc = "returned") =>
                  /\ run'[r].audited = 1
                  /\ run'[r].wrote = {PREFIX \o run'[r].ts \o DB_EXT,
                                      PREFIX \o run'[r].ts \o CSV_EXT}
       /\ BackupEntries(audit_log') # BackupEntries(audit_log) =>
              \E r \in Runners :
                  /\ run[r].op = "perform_backup"
                  /\ run'[r].audited = run[r].audited + 1
                  /\ audit_log' = Append(audit_log,
                         [action |-> "backup", wheelset_id |-> None,
                          details |-> <<"Backup erstellt: ",
                                        PREFIX \o run[r].ts \o DB_EXT>>])
                  /\ run[r].wrote = {PREFIX \o run[r].ts \o DB_EXT,
                                     PREFIX \o run[r].ts \o CSV_EXT}]_vars

C18_Witness ==
    /\ run["request"].op = "perform_backup" /\ run["request"].pc = "returned"
    /\ run["request"].audited = 1
    /\ Cardinality(BackupEntries(audit_log)) = 1

\* C19: when the snapshot, the CSV write or an audit write raises inside
\* perform_backup or export_csv_snapshot called by a route, the exception
\* reaches the route, which reports the error; export_csv_snapshot adds its
\* "backup_csv" entry only when the file was written and nothing raised.
C19_FailurePropagates ==
    [][/\ (run'["request"].failed \in {"snapshot", "csv", "csv_audit", "audit"}
               /\ run["request"].failed = None) =>
              run'["request"].pc = "raised"
       /\ (run["request"].pc = "raised" /\ run'["request"].pc = "idle") =>
              (last'.ret = "error" /\ last'.arg = run["request"].failed)
       /\ (run["request"].pc = "returned" /\ run'["request"].pc = "idle") =>
              (last'.ret = "success" /\ run["request"].failed = None)
       /\ Len(audit_log') > Len(audit_log)
               /\ audit_log'[Len(audit_log')].action = "backup_csv" =>
              \E r \in Runners :
                  /\ run[r].pc = "csv_audit" /\ run'[r].pc # "csv_audit"
                  /\ run[r].failed = None
                  /\ PREFIX \o run[r].ts \o CSV_EXT \in run[r].wrote
                  /\ audit_log'[Len(audit_log')].details =
                         <<"CSV exportiert: ", PREFIX \o run[r].ts \o CSV_EXT>>]_vars

\* the run_backup route has reported the failure of an audit write
C19_Witness ==
    /\ last.done /\ last.op = "perform_backup"
    /\ last.ret = "error" /\ last.arg = "csv_audit"

\* a perform_backup that has computed its token and has not ended
InProgress(r) ==
    /\ run[r].op = "perform_backup"
    /\ run[r].pc \notin {"idle", "begin", "returned", "raised"}

\* C20: nothing keeps a periodic and an on-demand perform_backup apart; two
\* that started within the same second have the same timestamp token and
\* write the same .db and .csv names.
C20_SameSecondSameNames ==
    (/\ InProgress("periodic") /\ InProgress("request")
     /\ run["periodic"].started[1][1] = run["request"].started[1][1]) =>
        /\ run["periodic"].ts = run["request"].ts
        /\ \/ run["periodic"].wrote \subseteq run["request"].wrote
           \/ run["request"].wrote \subseteq run["periodic"].wrote

\* both are in progress, started at different times of one second, and
\* both have written the same two files
C20_Witness ==
    /\ InProgress("periodic") /\ InProgress("request")
    /\ run["periodic"].started[1][1] = run["request"].started[1][1]
    /\ run["periodic"].started # run["request"].started
    /\ Cardinality(run["periodic"].wrote) = 2
    /\ run["periodic"].wrote = run["request"].wrote

(***************************************************************************)
(* src/routes.py: the backups page and the download route, and SpecFiles:  *)
(* a request thread alone with the records and the backup directory.       *)
(***************************************************************************)
\* f.startswith("wheel_storage_") and (f.endswith(".db") or f.endswith(".csv"))
is_backup_name(f) ==
    startswith(f, PREFIX) /\ (endswith(f, DB_EXT) \/ endswith(f, CSV_EXT))

\* backups(): the names the page shows
backups(fs) == {f \in fs : is_backup_name(f)}

\* a download route without the test of the name
download_backup_unchecked(fs, filename) ==
    IF filename \in fs THEN "200" ELSE "404"

\* download_backup(filename): abort(403), or send_from_directory, which
\* answers 404 for a file that is not there
download_backup(fs, filename) ==
    IF ~is_backup_name(filename) THEN "403"
    ELSE IF filename \in fs THEN "200" ELSE "404"

\* GET /backups
Backups ==
    /\ run["request"].pc = "idle"
    /\ last' = Returned(Pending("backups", <<>>), backups(files))
    /\ Unchanged_tables
    /\ UNCHANGED <<audit_log, settings, files, now, sched, run>>

\* GET /backups/download/<filename>
DownloadBackup(filename) ==
    /\ run["request"].pc = "idle"
    /\ last' = Returned(Pending("download_backup", filename),
                        download_backup(files, filename))
    /\ Unchanged_tables
    /\ UNCHANGED <<audit_log, settings, files, now, sched, run>>

\* files of BACKUP_DIR that are no backups: no prefix, no extension, and the
\* prefix not at the start
WS_NOTES == PREFIX \o <<"n", "o", "t", "e", "s">>
OLD_COPY == <<"o", "l", "d", "_">> \o backup_name(strftime(<<1, 0>>), DB_EXT)
Strays == {NOTES, WS_NOTES, OLD_COPY}

\* records at codes of which the byte order and the canonical order differ
ExportCodes == {C1ROLL, C1LOLL, C1ROL, GR1OL}

\* the settings row, and the number of old .db and .csv backups
FilesChoices ==
    {<<{}, 2, 1>>, <<{Settings(1, 60, 1)}, 2, 2>>, <<{Settings(1, 60, 2)}, 3, 1>>}

DownloadNames ==
    Strays \cup OldBackups(1, DB_EXT) \cup OldBackups(1, CSV_EXT)
           \cup {backup_name(<<"x">>, CSV_EXT)}

InitFiles ==
    /\ \E codes \in SUBSET ExportCodes : wheel_sets = RowsAt(codes)
    /\ disabled_positions = {}
    /\ audit_log = <<>>
    /\ IdleThreads
    /\ DeskOff
    /\ last = NoCall
    /\ \E c \in FilesChoices :
           /\ settings = c[1]
           /\ files = OldBackups(c[2], DB_EXT) \cup OldBackups(c[3], CSV_EXT)
                          \cup Strays
    /\ now = <<LastSecond, 0>>
    /\ sched = SchedStart
    /\ run = [r \in Runners |-> NoRun(0)]

NextFiles ==
    \/ \E op \in RouteOps : RouteCall(op)
    \/ RouteRespond
    \/ RunStep("request")
    \/ Backups
    \/ \E filename \in DownloadNames : DownloadBackup(filename)
    \/ Advance

SpecFiles == InitFiles /\ [][NextFiles]_vars

(***************************************************************************)
(* Properties of the export and of the backup files (SpecFiles)            *)
(***************************************************************************)
\* the data lines of a file's content: all but the header
DataLines(content) == SubSeq(content, 2, Len(content))

\* the index of the line of a code among the data lines, 0 when there is none
LineOf(content, code) ==
    LET at == {i \in 1..Len(DataLines(content)) : DataLines(content)[i][4] = code}
    IN  IF at = {} THEN 0 ELSE CHOOSE i \in at : TRUE

\* C21: the file export_csv_snapshot writes has, after its header, one line
\* per row of wheel_sets, in ascending order of the stored position string
\* compared character by character, which is not the allocator's order: the
\* line of C1LOLL comes before the line of C1ROLL, although the key of C1ROLL
\* is the smaller one.
C21_ExportInStringOrder ==
    \A r \in Runners :
        run[r].content # <<>> =>
            LET lines == DataLines(run[r].content)
            IN  /\ run[r].content[1] = CSV_HEADER
                /\ Len(lines) = Cardinality(wheel_sets)
                /\ {lines[i] : i \in 1..Len(lines)} = {csv_row(w) : w \in wheel_sets}
                /\ \A i \in 1..(Len(lines) - 1) : str_less(lines[i][4], lines[i + 1][4])
                /\ (LineOf(run[r].content, C1LOLL) > 0
                        /\ LineOf(run[r].content, C1ROLL) > 0) =>
                       /\ LineOf(run[r].content, C1LOLL) < LineOf(run[r].content, C1ROLL)
                       /\ TupleLess(position_sort_key(C1ROLL),
                                    position_sort_key(C1LOLL))

\* the export route has written the four records, C1LOLL first
C21_Witness ==
    /\ run["request"].op = "export_csv_snapshot" /\ run["request"].pc = "returned"
    /\ Len(run["request"].content) = 5
    /\ run["request"].content[2][4] = C1LOLL
    /\ run["request"].content[3][4] = C1ROL
    /\ run["request"].content[4][4] = C1ROLL
    /\ run["request"].content[5][4] = GR1OL

\* the name has the backup prefix and the .db or the .csv extension
Matches(f) == f \in FamilyOf({f}, DB_EXT) \cup FamilyOf({f}, CSV_EXT)

\* C22: the pruning, the backups page and the download route act only on
\* files whose name has the backup prefix and the .db or .csv extension: no
\* statement of perform_backup or export_csv_snapshot removes another file of
\* the directory, the names perform_backup lists and the names the page shows
\* all match, and a download of a name that does not match is answered 403.
C22_OnlyBackupNames ==
    /\ [][\A f \in files : ~Matches(f) => f \in files']_vars
    /\ [](\A r \in Runners : \A i \in 1..Len(run[r].listed) :
              Matches(run[r].listed[i]))
    /\ [][(last'.op = "backups" /\ last' # last) =>
              last'.ret = {f \in files : Matches(f)}]_vars
    /\ []((last.op = "download_backup" /\ last.done /\ ~Matches(last.arg)) =>
              last.ret = "403")

\* after a backup that pruned the oldest snapshot, the download of a file
\* that is in the directory is refused
C22_Witness ==
    /\ last.op = "download_backup" /\ last.done
    /\ last.arg = NOTES /\ last.ret = "403"
    /\ Strays \subseteq files
    /\ backup_name(strftime(<<1, 0>>), DB_EXT) \notin files
    /\ run["request"].calls = 1

(***************************************************************************)
(* src/routes.py: the settings route, and SpecSettings: the BackupManager  *)
(* thread and settings requests on a database without a settings row.      *)
(***************************************************************************)
IsDigit(ch) == ch \in Range(Digits)

RECURSIVE DigitsValue(_)
DigitsValue(s) ==
    IF s = <<>> THEN 0
    ELSE 10 * DigitsValue(SubSeq(s, 1, Len(s) - 1)) + StrToInt(<<s[Len(s)]>>)

\* int(text) of a form field: <<n>>, or <<>> for the ValueError; the text
\* is an optional sign and digits, with surrounding whitespace ignored
int(text) ==
    LET t == strip(text)
        d == IF t # <<>> /\ t[1] \in {"-", "+"} THEN SubSeq(t, 2, Len(t)) ELSE t
    IN  IF d = <<>> \/ \E k \in 1..Len(d) : ~IsDigit(d[k]) THEN <<>>
        ELSE IF t[1] = "-" THEN <<0 - DigitsValue(d)>> ELSE <<DigitsValue(d)>>

\* s = db.query(Settings).first() of get_or_create_settings; then, for a GET
\* with a row, the page
SettingsQuery(t, method, form) ==
    /\ pc[t] = "idle"
    /\ LET s == first_settings(settings)
           r == [kind |-> "settings", method |-> method, form |-> form, s |-> s]
       IN  IF s = NoRow THEN Goto(t, "settings_create", r)
           ELSE IF method = "POST" THEN Goto(t, "settings_commit", r)
           ELSE Respond(t)
    /\ UNCHANGED <<wheel_sets, disabled_positions, audit_log, last, backup_vars>>

\* s = Settings(backup_interval_minutes=60, backup_copies=10); db.add(s);
\* db.commit() of get_or_create_settings
SettingsCreate(t) ==
    /\ pc[t] = "settings_create"
    /\ LET s == DefaultSettings(settings)
       IN  /\ settings' = insert_settings(settings, s)
           /\ IF req[t].method = "POST"
              THEN Goto(t, "settings_commit", [req[t] EXCEPT !.s = s])
              ELSE Respond(t)
    /\ UNCHANGED <<wheel_sets, disabled_positions, audit_log, last,
                   files, now, sched, run, desk_vars>>

SettingsFields == {"backup_interval_minutes", "backup_copies"}

\* the POST branch: int() of both fields, max(1, ...) and db.commit(), which
\* updates on the row with s.id the attributes whose value differs from the
\* loaded one; a ValueError is caught and rolled back
SettingsCommit(t) ==
    /\ pc[t] = "settings_commit"
    /\ LET interval == int(req[t].form.backup_interval_minutes)
           copies   == int(req[t].form.backup_copies)
           s        == req[t].s
       IN  IF interval = <<>> \/ copies = <<>> THEN UNCHANGED settings
           ELSE LET new     == Settings(s.id, Max(1, interval[1]), Max(1, copies[1]))
                    changed == {a \in SettingsFields : new[a] # s[a]}
                    cur     == CHOOSE q \in settings : q.id = s.id
                IN  settings' = (settings \ {cur}) \cup
                        {[a \in DOMAIN cur |-> IF a \in changed THEN new[a] ELSE cur[a]]}
    /\ Respond(t)
    /\ UNCHANGED <<wheel_sets, disabled_positions, audit_log, last,
                   files, now, sched, run, desk_vars>>

\* request.form of a POST to /settings
SettingsForm(backup_interval_minutes, backup_copies) ==
    [backup_interval_minutes |-> backup_interval_minutes,
     backup_copies |-> backup_copies]

\* intervals that do not elapse while the clock runs
SettingsForms ==
    {SettingsForm(<<" ", "5">>, <<"0">>), SettingsForm(<<"x">>, <<"1">>)}

NoForm == SettingsForm(<<>>, <<>>)

InitSettings ==
    /\ EmptyDb
    /\ IdleThreads
    /\ DeskOff
    /\ last = NoCall
    /\ settings = {}
    /\ files = {NOTES}
    /\ now = StartOfRun
    /\ sched = SchedStart
    /\ run = [r \in Runners |-> NoRun(0)]

NextSettings ==
    \/ LoopCheck
    \/ TickRead
    \/ TickCreate
    \/ TickFails
    \/ Wake
    \/ Advance
    \/ \E t \in Threads : SettingsQuery(t, "GET", NoForm)
    \/ \E t \in Threads, form \in SettingsForms : SettingsQuery(t, "POST", form)
    \/ \E t \in Threads : SettingsCreate(t)
    \/ \E t \in Threads : SettingsCommit(t)

SpecSettings == InitSettings /\ [][NextSettings]_vars

\* C23 as claimed: under any interleaving of iterations of the BackupManager
\* thread and settings requests the settings table holds at most one row, and
\* the access that finds no row adds the row with interval 60 and 10 copies.
C23_SettingsSingleton ==
    /\ [](Cardinality(settings) <= 1)
    /\ [][settings' # settings /\ Cardinality(settings') > Cardinality(settings) =>
              \E id \in 1..3 : settings' = settings \cup {Settings(id, 60, 10)}]_vars

(***************************************************************************)
(* The desktop variant: src/app/controller/app_controller.py, the          *)
(* repository of src/app/model/repository.py on the table of               *)
(* src/app/model/db.py, and the lock of src/app/utils/locking.py.  Each    *)
(* process has its own AppController; all open the same database file and  *)
(* the same lock file.  FileLock.acquire() blocks while another holds the  *)
(* lock file.                                                              *)
(***************************************************************************)
\* class Season(str, Enum): a member is modelled by its value
WINTER == <<"w", "i", "n", "t", "e", "r">>
SUMMER == <<"s", "u", "m", "m", "e", "r">>
ALLSEASON == <<"a", "l", "l", "s", "e", "a", "s", "o", "n">>

\* Season(s): the member with this value; <<>> stands for the ValueError
Season(s) == IF s \in {WINTER, SUMMER, ALLSEASON} THEN s ELSE <<>>

\* the string is looked up as it is given
validate_season_as_given(season) == Season(season)

\* AppController._validate_season: s = season.strip().lower(); Season(s)
validate_season(season) == Season(lower(strip(season)))

\* excel_io.normalize_season
normalize_season(val) ==
    LET v == lower(strip(val))
    IN  IF v \in {<<"w", "i", "n", "t", "e", "r">>,
               <<"w">>,
               <<"w", "i", "n">>,
               <<"w", "i", "n", "t", "e", "r", "r", "e", "i", "f", "e", "n">>}
        THEN WINTER
        ELSE IF v \in {<<"s", "u", "m", "m", "e", "r">>,
                    <<"s">>,
                    <<"s", "u", "m">>,
                    <<"s", "o", "m", "m", "e", "r", "r", "e", "i", "f", "e", "n">>,
                    <<"s", "o", "m", "m", "e", "r">>}
        THEN SUMMER
        ELSE IF v \in {<<"a", "l", "l", "s", "e", "a", "s", "o", "n">>,
                    <<"a", "s">>,
                    <<"a", "l", "l">>,
                    <<"g", "a", "n", "z", "j", "a", "h", "r", "e", "s", "r", "e", "i", "f", "e", "n">>,
                    <<"g", "a", "n", "z", "j", "a", "h", "r">>}
        THEN ALLSEASON
        ELSE <<>>

\* WheelRecord(id, customer_name, location, season); id 0 stands for None
WheelRecord(id, customer_name, location, season) ==
    [id |-> id, customer_name |-> customer_name, location |-> location,
     season |-> season]

\* a row of the table wheels
WheelsRow(id, customer_name, licence_plate, location, season) ==
    [id |-> id, customer_name |-> customer_name, licence_plate |-> licence_plate,
     location |-> location, season |-> season]

\* CREATE TABLE wheels: the columns declared NOT NULL without a default
NotNullColumns == {"customer_name", "licence_plate", "location", "season"}

\* INSERT INTO wheels (customer_name, location, season)
InsertColumns == {"customer_name", "location", "season"}

\* the result of a repository method: the exception raised, the value
\* returned and the table afterwards
Outcome(exc, ret, ws) == [exc |-> exc, ret |-> ret, wheels |-> ws]

\* the INSERT of one record: a NOT NULL column the statement leaves out fails
\* the constraint
insert(ws, record) ==
    IF ~(NotNullColumns \subseteq InsertColumns)
    THEN Outcome("IntegrityError", <<>>, ws)
    ELSE Outcome(None, <<NewId(ws)>>,
                 ws \cup {WheelsRow(NewId(ws), record.customer_name, <<>>,
                                    record.location, record.season)})

\* WheelRepository.add
repo_add(ws, record) == insert(ws, record)

\* WheelRepository.update: UPDATE ... WHERE id=?
repo_update(ws, record) ==
    IF record.id = 0 THEN Outcome("ValueError", <<>>, ws)
    ELSE Outcome(None, <<>>,
                 {IF w.id = record.id
                  THEN [w EXCEPT !.customer_name = record.customer_name,
                                 !.location = record.location,
                                 !.season = record.season]
                  ELSE w : w \in ws})

\* WheelRepository.delete: DELETE FROM wheels WHERE id=?
repo_delete(ws, record_id) ==
    Outcome(None, <<>>, {w \in ws : w.id # record_id})

\* WheelRepository.bulk_insert: executemany of the INSERT, which fails at the
\* first record; without records it returns the row count 0
repo_bulk_insert(ws, records) ==
    IF records = <<>> THEN Outcome(None, <<0>>, ws)
    ELSE [insert(ws, records[1]) EXCEPT !.ret = <<>>]

\* the repository write of a controller method
repo_write(op, ws, rec) ==
    CASE op = "add_record"    -> repo_add(ws, rec)
      [] op = "update_record" -> repo_update(ws, rec)
      [] op = "delete_record" -> repo_delete(ws, rec)
      [] op = "import_excel"  -> repo_bulk_insert(ws, rec)

\* WriteLock.__enter__: self._lock.acquire(), possible when nobody holds the
\* lock file
WriteLock_enter(holder, p) == p

\* a release on the way out of a block that did not raise only
WriteLock_exit_unless_raised(holder, exc) == IF exc = None THEN None ELSE holder

\* WriteLock.__exit__(exc_type, exc, tb): self._lock.release(), whatever the
\* block did; it returns None, so the exception goes on
WriteLock_exit(holder, exc) == None

\* a method that raises before it reaches its with block
RaisesEarly(p, op, arg, exc) ==
    ctl' = [ctl EXCEPT ![p] = [NoCtl EXCEPT !.pc = "raised", !.op = op,
                                            !.arg = arg, !.exc = exc]]

\* a method that has reached "with WriteLock(self._lock_path):"
ReachesLock(p, op, arg, rec) ==
    ctl' = [ctl EXCEPT ![p] = [NoCtl EXCEPT !.pc = "acquire", !.op = op,
                                            !.arg = arg, !.rec = rec]]

Unchanged_web ==
    UNCHANGED <<wheel_sets, disabled_positions, audit_log, pc, req, last,
                settings, files, now, sched, run>>

\* add_record(customer_name, location, season) up to the with statement
AddRecord(p, customer_name, location, season) ==
    /\ ctl[p].pc = "idle"
    /\ LET season_enum == validate_season(season)
           arg == <<customer_name, location, season>>
       IN  IF season_enum = <<>> THEN RaisesEarly(p, "add_record", arg, "ValueError")
           ELSE ReachesLock(p, "add_record", arg,
                    WheelRecord(0, strip(customer_name), strip(location), season_enum))
    /\ UNCHANGED <<write_lock, wheels>>
    /\ Unchanged_web

\* update_record(record_id, customer_name, location, season) up to the with
\* statement
UpdateRecord(p, record_id, customer_name, location, season) ==
    /\ ctl[p].pc = "idle"
    /\ LET season_enum == validate_season(season)
           arg == <<record_id, customer_name, location, season>>
       IN  IF season_enum = <<>> THEN RaisesEarly(p, "update_record", arg, "ValueError")
           ELSE ReachesLock(p, "update_record", arg,
                    WheelRecord(record_id, strip(customer_name), strip(location),
                                season_enum))
    /\ UNCHANGED <<write_lock, wheels>>
    /\ Unchanged_web

\* delete_record(record_id) up to the with statement
DeleteRecord(p, record_id) ==
    /\ ctl[p].pc = "idle"
    /\ ReachesLock(p, "delete_record", <<record_id>>, record_id)
    /\ UNCHANGED <<write_lock, wheels>>
    /\ Unchanged_web

\* excel_io.read_excel of a sheet: its column names and its rows; a missing
\* column or a season normalize_season does not know raises ValueError
read_excel(sheet) ==
    IF ~({"customer_name", "location", "season"} \subseteq sheet.cols)
         \/ \E k \in 1..Len(sheet.rows) : normalize_season(sheet.rows[k][3]) = <<>>
    THEN <<>>
    ELSE <<ToList([k \in 1..Len(sheet.rows) |->
                WheelRecord(0, strip(sheet.rows[k][1]), strip(sheet.rows[k][2]),
                            normalize_season(sheet.rows[k][3]))])>>

\* import_excel(path) up to the with statement
ImportExcel(p, sheet) ==
    /\ ctl[p].pc = "idle"
    /\ LET recs == read_excel(sheet)
       IN  IF recs = <<>> THEN RaisesEarly(p, "import_excel", sheet, "ValueError")
           ELSE ReachesLock(p, "import_excel", sheet, recs[1])
    /\ UNCHANGED <<write_lock, wheels>>
    /\ Unchanged_web

\* with WriteLock(self._lock_path): __enter__
Acquire(p) ==
    /\ ctl[p].pc = "acquire"
    /\ write_lock = None
    /\ write_lock' = WriteLock_enter(write_lock, p)
    /\ ctl' = [ctl EXCEPT ![p].pc = "write", ![p].writes = 0]
    /\ UNCHANGED wheels
    /\ Unchanged_web

\* the repository method called inside the with block
Write(p) ==
    /\ ctl[p].pc = "write"
    /\ LET out == repo_write(ctl[p].op, wheels, ctl[p].rec)
       IN  /\ wheels' = out.wheels
           /\ ctl' = [ctl EXCEPT ![p].pc = "release", ![p].exc = out.exc,
                                 ![p].ret = out.ret, ![p].writes = @ + 1]
    /\ UNCHANGED write_lock
    /\ Unchanged_web

\* the statement or the commit raises sqlite3.OperationalError
WriteFails(p) ==
    /\ ctl[p].pc = "write"
    /\ ctl' = [ctl EXCEPT ![p].pc = "release", ![p].exc = "OperationalError",
                          ![p].writes = @ + 1]
    /\ UNCHANGED <<write_lock, wheels>>
    /\ Unchanged_web

\* the end of the with block: __exit__, then the return or the exception
Exit(p) ==
    /\ ctl[p].pc = "release"
    /\ write_lock' = WriteLock_exit(write_lock, ctl[p].exc)
    /\ ctl' = [ctl EXCEPT ![p].pc = IF ctl[p].exc = None THEN "returned"
                                    ELSE "raised"]
    /\ UNCHANGED wheels
    /\ Unchanged_web

\* the caller has the result
Done(p) ==
    /\ ctl[p].pc \in {"returned", "raised"}
    /\ ctl' = [ctl EXCEPT ![p] = NoCtl]
    /\ UNCHANGED <<write_lock, wheels>>
    /\ Unchanged_web

\* ---- SpecDesk: two processes on a database that holds rows ----
KUNDE == <<"K">>
REGAL == <<"A", "1">>

SeasonInputs ==
    {<<"w", "i", "n", "t", "e", "r">>,
     <<" ", "S", "u", "m", "m", "e", "r">>,
     <<"A", "L", "L", "S", "E", "A", "S", "O", "N", "\n">>,
     <<"a", "u", "t", "u", "m", "n">>,
     <<>>,
     <<"w">>}

RecordIds == {1, 3}

Sheet(cols, rows) == [cols |-> cols, rows |-> rows]

Sheets ==
    {Sheet({"customer_name", "location", "season"}, <<>>),
     Sheet({"customer_name", "location", "season"}, << <<KUNDE, REGAL, <<"w">> >> >>),
     Sheet({"customer_name", "location", "season"}, << <<KUNDE, REGAL, <<"a", "u", "t", "u", "m", "n">> >> >>),
     Sheet({"customer_name", "season"}, <<>>)}

\* rows written before, by a program that filled every column
StoredRows(n) == {WheelsRow(k, KUNDE, <<"P">>, REGAL, WINTER) : k \in 1..n}

InitDesk ==
    /\ EmptyDb
    /\ IdleThreads
    /\ last = NoCall
    /\ BackupOff
    /\ write_lock = None
    /\ wheels \in {StoredRows(0), StoredRows(1)}
    /\ ctl = [p \in Procs |-> NoCtl]

NextDesk ==
    \/ \E p \in Procs, season \in SeasonInputs : AddRecord(p, KUNDE, REGAL, season)
    \/ \E p \in Procs, id \in RecordIds, season \in SeasonInputs :
           UpdateRecord(p, id, KUNDE, <<" ">> \o REGAL, season)
    \/ \E p \in Procs, id \in RecordIds : DeleteRecord(p, id)
    \/ \E p \in Procs, sheet \in Sheets : ImportExcel(p, sheet)
    \/ \E p \in Procs : Acquire(p)
    \/ \E p \in Procs : Write(p)
    \/ \E p \in Procs : WriteFails(p)
    \/ \E p \in Procs : Exit(p)
    \/ \E p \in Procs : Done(p)

SpecDesk == InitDesk /\ [][NextDesk]_vars

(***************************************************************************)
(* Properties of the desktop variant (SpecDesk)                            *)
(***************************************************************************)
\* the process is inside its with block
InWith(p) == ctl[p].pc \in {"write", "release"}

\* C24: at most one of add, update, delete and Excel import is inside its
\* with block and holds the lock; the lock is taken right before the one
\* repository write of the method and given back right after it, whether the
\* write returned or raised; the table changes only under the lock.
C24_OneWriterUnderLock ==
    /\ [](\A p \in Procs : InWith(p) <=> write_lock = p)
    /\ [](Cardinality({p \in Procs : InWith(p)}) <= 1)
    /\ [][/\ \A p \in Procs :
                /\ (write_lock # p /\ write_lock' = p) =>
                       /\ write_lock = None
                       /\ ctl[p].pc = "acquire" /\ ctl'[p].pc = "write"
                /\ (write_lock = p /\ write_lock' # p) =>
                       /\ write_lock' = None
                       /\ ctl[p].writes = 1
                       /\ ctl'[p].pc = IF ctl[p].exc = None THEN "returned"
                                       ELSE "raised"
                /\ (ctl[p].pc = "write" /\ ctl'[p].pc # "write") =>
                       (ctl'[p].pc = "release" /\ ctl'[p].writes = 1)
                /\ (ctl[p].pc = "release" /\ ctl'[p].pc # "release") =>
                       write_lock' = None
          /\ wheels' # wheels =>
                 \E p \in Procs : write_lock = p /\ ctl[p].pc = "write"]_vars

\* the write of one process has raised and the lock is free again; the other
\* process is inside its with block
C24_Witness ==
    /\ ctl["p1"].pc = "raised" /\ ctl["p1"].exc = "IntegrityError"
    /\ ctl["p1"].writes = 1
    /\ write_lock = "p2" /\ ctl["p2"].pc = "write"
    /\ ctl["p2"].op = "update_record"

\* the capital of a letter of the three season names
Capital(ch) ==
    CASE ch = "w" -> "W" [] ch = "i" -> "I" [] ch = "n" -> "N" [] ch = "t" -> "T"
      [] ch = "e" -> "E" [] ch = "r" -> "R" [] ch = "s" -> "S" [] ch = "u" -> "U"
      [] ch = "m" -> "M" [] ch = "a" -> "A" [] ch = "l" -> "L" [] ch = "o" -> "O"

\* text is name, in any mix of letter cases, with whitespace around it
IsSeasonName(text, name) ==
    \E lead, trail \in 0..Len(text) :
        /\ lead + Len(name) + trail = Len(text)
        /\ \A k \in 1..lead : IsSpace(text[k])
        /\ \A k \in (Len(text) - trail + 1)..Len(text) : IsSpace(text[k])
        /\ \A k \in 1..Len(name) : text[lead + k] \in {name[k], Capital(name[k])}

\* the season the text names; <<>> when it names none
NamedSeason(text) ==
    IF IsSeasonName(text, WINTER) THEN WINTER
    ELSE IF IsSeasonName(text, SUMMER) THEN SUMMER
    ELSE IF IsSeasonName(text, ALLSEASON) THEN ALLSEASON
    ELSE <<>>

\* C26: a season text is accepted exactly when it is winter, summer or
\* allseason in any letter case and with whitespace around it, and stands for
\* that season; for any other text add_record and update_record raise
\* ValueError before they take the lock and without a repository write: the
\* lock and the table stay as they are.
C26_SeasonValidated ==
    /\ [][\A p \in Procs :
              (ctl[p].pc = "idle" /\ ctl'[p].op \in {"add_record", "update_record"}) =>
                  LET text == ctl'[p].arg[Len(ctl'[p].arg)]
                  IN  IF NamedSeason(text) # <<>>
                      THEN /\ ctl'[p].pc = "acquire"
                           /\ ctl'[p].rec.season = NamedSeason(text)
                      ELSE /\ ctl'[p].pc = "raised" /\ ctl'[p].exc = "ValueError"
                           /\ ctl'[p].writes = 0
                           /\ write_lock' = write_lock /\ wheels' = wheels]_vars
    /\ [][\A p \in Procs :
              (ctl[p].pc = "raised" /\ ctl[p].op \in {"add_record", "update_record"}
                   /\ ctl[p].exc = "ValueError") =>
                  (ctl'[p].pc \in {"raised", "idle"} /\ ctl[p].writes = 0
                       /\ write_lock # p)]_vars
    /\ [](\A w \in wheels : w.season \in {WINTER, SUMMER, ALLSEASON})

\* add_record has raised for "autumn" while update_record, given " Summer",
\* waits for the lock with Season.SUMMER
C26_Witness ==
    /\ ctl["p1"].pc = "raised" /\ ctl["p1"].op = "add_record"
    /\ ctl["p1"].exc = "ValueError"
    /\ ctl["p1"].arg[3] = <<"a", "u", "t", "u", "m", "n">>
    /\ ctl["p2"].pc = "acquire" /\ ctl["p2"].op = "update_record"
    /\ ctl["p2"].arg[4] = <<" ", "S", "u", "m", "m", "e", "r">>
    /\ ctl["p2"].rec.season = SUMMER

(***************************************************************************)
(* src/tools/quick_disable.py: the command line tool, and SpecCli: any     *)
(* sequence of its invocations on an initially empty disabled_positions    *)
(* table.  An option that takes a value is <<value>> when given and <<>>   *)
(* when absent (None).                                                     *)
(***************************************************************************)
UpperChar(ch) ==
    CASE ch = "c" -> "C" [] ch = "g" -> "G" [] ch = "r" -> "R"
      [] ch = "l" -> "L" [] ch = "o" -> "O" [] ch = "m" -> "M"
      [] ch = "u" -> "U" [] ch = "w" -> "W" [] ch = "i" -> "I"
      [] ch = "n" -> "N" [] ch = "t" -> "T" [] ch = "e" -> "E"
      [] ch = "s" -> "S" [] ch = "a" -> "A" [] OTHER -> ch

\* str.upper()
upper(s) == [i \in 1..Len(s) |-> UpperChar(s[i])]

\* the Namespace parse_args returns
Args(disable, enable, list) == [disable |-> disable, enable |-> enable, list |-> list]

\* "not args.disable": the option is absent, or its value is the empty str
Falsy(opt) == opt = <<>> \/ opt[1] = <<>>

\* main(): <<exit code, disabled_positions after>>
main(args, dis) ==
    IF args.list \/ (Falsy(args.disable) /\ Falsy(args.enable)) THEN <<0, dis>>
    ELSE IF ~Falsy(args.disable)
    THEN LET code == upper(strip(args.disable[1]))
         IN  IF ~is_valid_position(code) THEN <<2, dis>>
             ELSE <<0, disable_position(dis, code)[2]>>
    ELSE LET code == upper(strip(args.enable[1]))
         IN  IF ~is_valid_position(code) THEN <<2, dis>>
             ELSE <<0, enable_position(dis, code)[2]>>

\* python tools/quick_disable.py ...; raise SystemExit(main())
Main(args) ==
    LET r == main(args, disabled_positions)
    IN  /\ last' = [op |-> "main", arg |-> args, ret |-> r[1], done |-> TRUE,
                    before |-> disabled_positions]
        /\ disabled_positions' = r[2]
        /\ UNCHANGED <<backup_vars, wheel_sets, audit_log, pc, req>>

\* codes typed on the command line
CliCodes ==
    {C1ROLL, C1ROL, lower(C1ROLL), <<" ">> \o lower(GR1OL) \o <<LF>>,
     C5ROLL, <<"C", "1">>, <<" ">>, <<>>}

\* the command lines the parser accepts: at most one of the three options
CliArgs ==
    {Args(<<>>, <<>>, FALSE), Args(<<>>, <<>>, TRUE)}
    \cup {Args(<<c>>, <<>>, FALSE) : c \in CliCodes}
    \cup {Args(<<>>, <<c>>, FALSE) : c \in CliCodes}

InitCli ==
    /\ EmptyDb
    /\ IdleThreads
    /\ DeskOff
    /\ BackupOff
    /\ last = [op |-> None, arg |-> <<>>, ret |-> None, done |-> FALSE,
               before |-> {}]

NextCli == \E args \in CliArgs : Main(args)

SpecCli == InitCli /\ [][NextCli]_vars

\* the code given to --disable or --enable, trimmed and uppercased; <<>>
\* when neither is given
GivenCode(args) ==
    IF args.disable # <<>> THEN <<upper(strip(args.disable[1]))>>
    ELSE IF args.enable # <<>> THEN <<upper(strip(args.enable[1]))>>
    ELSE <<>>

\* C25 as claimed: the tool exits with code 2 and leaves the disabled set as
\* it was when the code given to --disable or --enable is, trimmed and
\* uppercased, no code of the position grammar; in every other case
\* (disabled, enabled, already disabled, not disabled, list) it exits with
\* code 0.
C25_ExitCodes ==
    (last.op = "main" /\ last.done) =>
        LET code == GivenCode(last.arg)
        IN  IF code # <<>> /\ code[1] \notin GrammarUniverse
            THEN last.ret = 2 /\ disabled_positions = last.before
            ELSE last.ret = 0

(***************************************************************************)
(* SpecOverride: the record routes on one request thread, and              *)
(* disable_position and enable_position called on the same database.       *)
(***************************************************************************)
OverrideCodes == {C1ROLL, C1ROL}

InitOverride ==
    /\ EmptyDb
    /\ IdleThreads
    /\ DeskOff
    /\ BackupOff
    /\ last = NoCall

NextOverride ==
    \/ \E form \in Forms : CreateRead("t1", form)
    \/ CreateCommit("t1")
    \/ CreateLog("t1")
    \/ \E wid \in Wids, form \in Forms : EditGet("t1", wid, form)
    \/ EditRead("t1")
    \/ EditCommit("t1")
    \/ EditLog("t1")
    \/ \E wid \in Wids, plate \in ConfirmPlates : DeleteGet("t1", wid, plate)
    \/ DeleteCommit("t1")
    \/ DeleteLog("t1")
    \/ \E code \in OverrideCodes : DisablePosition(code)
    \/ \E code \in OverrideCodes : EnablePosition(code)

SpecOverride == InitOverride /\ [][NextOverride]_vars

\* every required field of the form has text, and its position, trimmed, is
\* a code of the grammar that none of the rows ws holds
Acceptable(form, ws) ==
    /\ strip(form.customer_name) # <<>> /\ strip(form.license_plate) # <<>>
    /\ strip(form.car_type) # <<>>
    /\ strip(form.storage_position) \in GrammarUniverse
    /\ \A w \in ws : w.storage_position # strip(form.storage_position)

\* C27: occupied and disabled do not exclude each other.  disable_position
\* of a code of the grammar that is not disabled returns true and adds the
\* code, whether a record holds it or not; the create and the edit route let
\* a form through to the commit when its position is a code that no (other)
\* record holds, whether it is disabled or not, and the commit then stores
\* the position.
C27_OccupiedAndDisabled ==
    /\ \A code \in OverrideCodes :
           code \notin disabled_positions =>
               ENABLED (/\ DisablePosition(code)
                        /\ last'.ret = TRUE
                        /\ disabled_positions' = disabled_positions \cup {code})
    /\ \A form \in Forms :
           (pc["t1"] = "idle" /\ Len(audit_log) < MaxAudit
                /\ Acceptable(form, wheel_sets)) =>
               ENABLED (CreateRead("t1", form) /\ pc'["t1"] = "create_commit")
    /\ (pc["t1"] = "create_commit"
            /\ req["t1"].form.storage_position \notin Occupied) =>
           ENABLED (/\ CreateCommit("t1")
                    /\ \E w \in wheel_sets' \ wheel_sets :
                           w.storage_position = req["t1"].form.storage_position)
    /\ (pc["t1"] = "edit_read"
            /\ Acceptable(req["t1"].form,
                          {w \in wheel_sets : w.id # req["t1"].wid})) =>
           ENABLED (EditRead("t1") /\ pc'["t1"] = "edit_commit")
    /\ (pc["t1"] = "edit_commit"
            /\ req["t1"].form.storage_position # req["t1"].w.storage_position
            /\ req["t1"].form.storage_position \notin Occupied
            /\ \E w \in wheel_sets : w.id = req["t1"].wid) =>
           ENABLED (/\ EditCommit("t1")
                    /\ \E w \in wheel_sets' :
                           /\ w.id = req["t1"].wid
                           /\ w.storage_position = req["t1"].form.storage_position)

\* C1ROLL was disabled while a record held it, and a record was moved to
\* C1ROL, which is disabled: both codes are occupied and disabled
C27_Witness ==
    /\ Occupied = {C1ROLL, C1ROL}
    /\ disabled_positions = {C1ROLL, C1ROL}
    /\ last.op = "disable_position" /\ last.arg = C1ROL /\ last.ret = TRUE
    /\ Len(audit_log) = 2
    /\ audit_log[1].action = "create" /\ audit_log[1].details = <<C1ROLL>>
    /\ audit_log[2].action = "create" /\ audit_log[2].details = <<C1ROL>>

(***************************************************************************)
(* Properties of the on-demand backup and of the retention (SpecBackup)    *)
(***************************************************************************)
\* the request thread takes a step of its call
RequestStep == run'["request"] # run["request"]

\* the route has served a backup on demand
OnDemandServed == last.op = "perform_backup" /\ last.done

\* C29: a backup on demand leaves the thread's _last_run as it is: no step of
\* the request thread changes the state of the BackupManager thread;
\* _last_run is written only by the thread itself, on the iteration that
\* finds it unset and when its own perform_backup has returned; and an
\* iteration after a backup on demand starts the periodic backup exactly
\* when the interval has passed since that _last_run.
C29_OnDemandKeepsLastRun ==
    [][/\ RequestStep => sched' = sched
       /\ sched'.last_run # sched.last_run =>
              /\ ~RequestStep
              /\ sched'.last_run = <<now>>
              /\ \/ sched.last_run = <<>> /\ InTick
                 \/ sched.pc = "backup" /\ run["periodic"].pc = "returned"
       /\ (OnDemandServed /\ sched.last_run # <<>> /\ TickDecides
               /\ sched'.exc = None) =>
              ((sched'.pc = "backup") <=> IntervalElapsed)]_vars

\* a backup on demand has succeeded half a minute after the thread's second
\* iteration, and the thread's third iteration, a minute after its first,
\* has found its backup due
C29_Witness ==
    /\ OnDemandServed /\ last.ret = "success"
    /\ sched.pc = "backup" /\ sched.tick = 3
    /\ sched.last_run = <<(<<LastSecond - 60, 0>>)>>
    /\ \E i \in 1..Len(audit_log) : audit_log[i].action = "backup"

\* the run r of perform_backup ends a removal loop
Prunes(r) ==
    /\ run[r].op = "perform_backup"
    /\ run[r].pc \in {"rm_db", "rm_csv"}
    /\ run'[r].pc # run[r].pc

\* the backups among the files fs that do not carry a token earlier than
\* that of run r
NotEarlier(fs, r) ==
    {f \in fs : \E ext \in {DB_EXT, CSV_EXT} :
         /\ f \in FamilyOf(fs, ext)
         /\ ~str_less(f, backup_name(run[r].ts, ext))}

\* the pruning of a run uses a retention count of at least 1
KeepsOne ==
    \A r \in Runners :
        run[r].pc \in {"rm_db", "list_csv", "rm_csv"} => run[r].keep >= 1

\* C30 as claimed: the retention count used for pruning is never below 1,
\* and a perform_backup that found only backups with earlier timestamp
\* tokens in the directory when it began removes neither of the two files it
\* has written.
C30_OwnFilesSurvive ==
    /\ []KeepsOne
    /\ [][\A r \in Runners :
              (Prunes(r) /\ NotEarlier(run[r].present, r) = {}) =>
                  (files \ files') \cap run[r].wrote = {}]_vars

\* C30, amended: the retention count used for pruning is never below 1, and
\* a removal loop of perform_backup whose listing held, besides the run's own
\* file, only names with earlier timestamp tokens does not remove the run's
\* own file of that family, nor its file of the other family.
C30_OwnFilesSurviveListed ==
    /\ []KeepsOne
    /\ [][\A r \in Runners :
              (Prunes(r) /\ NotEarlier(Range(run[r].listed) \ run[r].wrote, r) = {}) =>
                  (files \ files') \cap run[r].wrote = {}]_vars

\* a run with retention count 1 has removed the one older .db backup and
\* kept the one it wrote
C30_Witness ==
    \E r \in Runners :
        /\ run[r].op = "perform_backup" /\ run[r].pc = "list_csv"
        /\ run[r].keep = 1 /\ ~run[r].rm_failed
        /\ Len(run[r].seen[1]) = 2
        /\ FamilyOf(files, DB_EXT) = FamilyOf(run[r].wrote, DB_EXT)

====
